---- MODULE Spec2Model ----
(***************************************************************************)
(* A model of the Search-Engine repository: the link normalizer and the    *)
(* breadth-first crawler (bfs_crawler.py), the tokenizer (tokenizer.py),   *)
(* the two-pass indexer (indexer.py) and the query engine (searcher.py).   *)
(*                                                                         *)
(* A Python str is a sequence of one-character strings, so that prefix,    *)
(* suffix, split, strip and comparison are computed as the code computes   *)
(* them.  A float is a fixed-point integer, in thousandths.                *)
(***************************************************************************)
EXTENDS Integers, Sequences, FiniteSets, TLC

\* ------------------------------------------------------------------------
\* Bounds of the model
\* ------------------------------------------------------------------------

\* Largest number of anchors in one page.
MaxLinks == 2

\* Largest number of searches in one session.
MaxSearches == 2

\* The largest proximity of a direct call of phrase_search.
MaxProximity == 5

\* The largest factor by which the multiplicities of a query's terms are multiplied.
MaxScale == 3

\* ------------------------------------------------------------------------
\* Python str operations
\* ------------------------------------------------------------------------

\* The characters of the model in code-point order (Python compares str by
\* code point).
Ascii ==
  << " ", "\"", "#", "'", ",", "-", ".", "/", ":", ";", "<", "=", ">", "?", "A", "B", "D", "N", "O",
     "R", "T", "U", "a", "b", "c", "d", "e", "f", "g", "h", "i", "j", "k",
     "l", "m", "n", "o", "p", "q", "r", "s", "t", "u", "v", "w", "x", "y",
     "z" >>

Ord(c) == CHOOSE i \in 1..Len(Ascii) : Ascii[i] = c

Letters ==
  { "A", "B", "D", "N", "O", "R", "T", "U", "a", "b", "c", "d", "e", "f",
    "g", "h", "i", "j", "k", "l", "m", "n", "o", "p", "q", "r", "s", "t",
    "u", "v", "w", "x", "y", "z" }

Whitespace == { " " }

\* str.lower() of one character.
LowerChar(c) ==
  CASE c = "A" -> "a" [] c = "B" -> "b" [] c = "D" -> "d" [] c = "N" -> "n"
    [] c = "O" -> "o" [] c = "R" -> "r" [] c = "T" -> "t" [] c = "U" -> "u"
    [] OTHER -> c

Lower(s) == [i \in 1..Len(s) |-> LowerChar(s[i])]

\* The elements of a list.
Range(seq) == { seq[i] : i \in DOMAIN seq }

\* a < b for str.
RECURSIVE StrLess(_, _)
StrLess(a, b) ==
  IF b = << >> THEN FALSE
  ELSE IF a = << >> THEN TRUE
  ELSE IF a[1] # b[1] THEN Ord(a[1]) < Ord(b[1])
  ELSE StrLess(Tail(a), Tail(b))

StartsWith(s, p) == Len(s) >= Len(p) /\ SubSeq(s, 1, Len(p)) = p

EndsWith(s, p) == Len(s) >= Len(p) /\ SubSeq(s, Len(s) - Len(p) + 1, Len(s)) = p

\* s.find(p) + 1: the first place where p occurs in s, 0 when there is none.
Find(s, p) ==
  LET places == { i \in 1..(Len(s) - Len(p) + 1) : SubSeq(s, i, i + Len(p) - 1) = p }
  IN  IF places = {} THEN 0 ELSE CHOOSE i \in places : \A j \in places : i <= j

\* s.rfind(p) + 1.
RFind(s, p) ==
  LET places == { i \in 1..(Len(s) - Len(p) + 1) : SubSeq(s, i, i + Len(p) - 1) = p }
  IN  IF places = {} THEN 0 ELSE CHOOSE i \in places : \A j \in places : i >= j

Contains(s, p) == Find(s, p) # 0

\* s.split(sep) for a non-empty separator.
RECURSIVE Split(_, _)
Split(s, sep) ==
  LET i == Find(s, sep)
  IN  IF i = 0 THEN << s >>
      ELSE << SubSeq(s, 1, i - 1) >> \o Split(SubSeq(s, i + Len(sep), Len(s)), sep)

\* s.lstrip(chars), s.rstrip(chars), s.strip().
RECURSIVE LStrip(_, _)
LStrip(s, chars) ==
  IF s # << >> /\ s[1] \in chars THEN LStrip(Tail(s), chars) ELSE s

RECURSIVE RStrip(_, _)
RStrip(s, chars) ==
  IF s # << >> /\ s[Len(s)] \in chars THEN RStrip(SubSeq(s, 1, Len(s) - 1), chars) ELSE s

Strip(s) == RStrip(LStrip(s, Whitespace), Whitespace)

\* s.split(): the maximal runs of non-whitespace characters.
RECURSIVE SplitWs(_)
SplitWs(s) ==
  LET t == LStrip(s, Whitespace)
      i == Find(t, << " " >>)
  IN  IF t = << >> THEN << >>
      ELSE IF i = 0 THEN << t >>
      ELSE << SubSeq(t, 1, i - 1) >> \o SplitWs(SubSeq(t, i, Len(t)))

\* sep.join(parts).
RECURSIVE Join(_, _)
Join(sep, parts) ==
  IF parts = << >> THEN << >>
  ELSE IF Len(parts) = 1 THEN parts[1]
  ELSE parts[1] \o sep \o Join(sep, Tail(parts))

\* ------------------------------------------------------------------------
\* posixpath
\* ------------------------------------------------------------------------

Slash == << "/" >>

\* posixpath.dirname(p).
dirname(p) ==
  LET i == RFind(p, Slash)
      head == SubSeq(p, 1, i)
  IN  IF head # << >> /\ LStrip(head, { "/" }) # << >>
      THEN RStrip(head, { "/" })
      ELSE head

\* posixpath.join(a, b).
pathjoin(a, b) ==
  IF StartsWith(b, Slash) THEN b
  ELSE IF a = << >> \/ EndsWith(a, Slash) THEN a \o b
  ELSE a \o Slash \o b

\* The loop of posixpath.normpath over the components.
RECURSIVE NormComps(_, _, _)
NormComps(comps, new_comps, initial_slashes) ==
  IF comps = << >> THEN new_comps
  ELSE LET comp == comps[1]
           n == Len(new_comps)
       IN  IF comp = << >> \/ comp = << "." >>
           THEN NormComps(Tail(comps), new_comps, initial_slashes)
           ELSE IF \/ comp # << ".", "." >>
                   \/ (initial_slashes = 0 /\ n = 0)
                   \/ (n > 0 /\ new_comps[n] = << ".", "." >>)
           THEN NormComps(Tail(comps), Append(new_comps, comp), initial_slashes)
           ELSE IF n > 0
           THEN NormComps(Tail(comps), SubSeq(new_comps, 1, n - 1), initial_slashes)
           ELSE NormComps(Tail(comps), new_comps, initial_slashes)

\* posixpath.normpath(path).
normpath(path) ==
  IF path = << >> THEN << "." >>
  ELSE LET initial_slashes ==
             IF ~StartsWith(path, Slash) THEN 0
             ELSE IF StartsWith(path, << "/", "/" >>) /\ ~StartsWith(path, << "/", "/", "/" >>)
             THEN 2 ELSE 1
           joined == Join(Slash, NormComps(Split(path, Slash), << >>, initial_slashes))
           out == [i \in 1..initial_slashes |-> "/"] \o joined
       IN  IF out = << >> THEN << "." >> ELSE out

\* ------------------------------------------------------------------------
\* bfs_crawler.py: the link normalizer
\* ------------------------------------------------------------------------

\* "No target": Python's None.
None == << "None" >>

ExternalSchemes ==
  { << "h", "t", "t", "p", ":", "/", "/" >>,
    << "h", "t", "t", "p", "s", ":", "/", "/" >>,
    << "m", "a", "i", "l", "t", "o", ":" >>,
    << "f", "t", "p", ":", "/", "/" >>,
    << "j", "a", "v", "a", "s", "c", "r", "i", "p", "t", ":" >>,
    << "t", "e", "l", ":" >> }

\* Line 9: the link without its fragment and query, trimmed.
CleanLink(link) ==
  Strip(Split(Split(link, << "#" >>)[1], << "?" >>)[1])

\* ResolveLink resolving every link against the archive root.
ResolveLinkAtRoot(current_path, link) ==
  IF StartsWith(link, Slash) THEN LStrip(link, { "/" }) ELSE normpath(link)

\* Lines 14-22: the link resolved against the directory of current_path.
ResolveLink(current_path, link) ==
  LET current_dir == dirname(current_path)
  IN  IF StartsWith(link, Slash) THEN LStrip(link, { "/" })
      ELSE normpath(IF current_dir # << >> THEN pathjoin(current_dir, link) ELSE link)

\* Line 23: normalized.lstrip('./') strips every leading '.' and '/'.
StripLeading(normalized) == LStrip(normalized, { ".", "/" })

normalize_path(current_path, link) ==
  LET clean == CleanLink(link)
  IN  IF clean = << >> THEN None
      ELSE IF \E scheme \in ExternalSchemes : StartsWith(clean, scheme) THEN None
      ELSE LET normalized == StripLeading(ResolveLink(current_path, clean))
           IN  IF StartsWith(normalized, << ".", "." >>) THEN None ELSE normalized

\* ------------------------------------------------------------------------
\* tokenizer.py
\* ------------------------------------------------------------------------

\* An HTML document is the sequence of events html.parser delivers for it:
\* a start tag with its attributes, an end tag, or character data.
StartTag(tag, attrs) == [ev |-> "starttag", tag |-> tag, attrs |-> attrs, data |-> << >>]

EndTag(tag) == [ev |-> "endtag", tag |-> tag, attrs |-> << >>, data |-> << >>]

Data(text) == [ev |-> "data", tag |-> "", attrs |-> << >>, data |-> text]

Anchor(href) == StartTag("a", << << "href", href >> >>)

\* The href values a start tag contributes (lines 17-21 of tokenizer.py, and
\* lines 33-38 of bfs_crawler.py): every non-empty href of an <a> tag.
RECURSIVE HrefValues(_)
HrefValues(attrs) ==
  IF attrs = << >> THEN << >>
  ELSE IF attrs[1][1] = "href" /\ attrs[1][2] # << >>
  THEN << attrs[1][2] >> \o HrefValues(Tail(attrs))
  ELSE HrefValues(Tail(attrs))

skip_tags == { "script", "style", "noscript" }

NoSkip == "None"

\* The elements whose content html.parser reads as character data up to
\* their end tag.
CDATA_CONTENT_ELEMENTS == { "script", "style" }

\* HTMLTextExtractor.__init__: the fields of the class, and below them the
\* fields of HTMLParser that super().__init__() sets: the input not yet
\* parsed and the element whose end tag the parser waits for.
NewParser ==
  [text_parts |-> << >>, urls |-> << >>, current_skip |-> NoSkip, position |-> 0,
   rawdata |-> << >>, cdata_elem |-> NoSkip]

handle_starttag(p, tag, attrs) ==
  [p EXCEPT !.urls = IF tag = "a" THEN @ \o HrefValues(attrs) ELSE @,
            !.current_skip = IF tag \in skip_tags THEN tag ELSE @]

handle_endtag(p, tag) ==
  [p EXCEPT !.current_skip = IF tag = @ THEN NoSkip ELSE @]

\* html.unescape changes nothing in a text without '&', and the alphabet of
\* the model has none.
handle_data(p, data) ==
  IF p.current_skip = NoSkip
  THEN [p EXCEPT !.text_parts = Append(@, << data, p.position >>),
                 !.position = @ + Len(data)]
  ELSE p

RECURSIVE get_text_of(_)
get_text_of(text_parts) ==
  IF text_parts = << >> THEN << >>
  ELSE text_parts[1][1] \o get_text_of(Tail(text_parts))

get_text(p) == get_text_of(p.text_parts)

\* reset_state assigns the four fields of the class; HTMLParser.reset() is
\* not called, so rawdata and cdata_elem stay as the last feed left them.
reset_state(p) ==
  [p EXCEPT !.text_parts = << >>, !.urls = << >>, !.position = 0, !.current_skip = NoSkip]

\* The characters of a tag or attribute name.
NameChars(name) ==
  CASE name = "a" -> << "a" >>
    [] name = "href" -> << "h", "r", "e", "f" >>
    [] name = "script" -> << "s", "c", "r", "i", "p", "t" >>
    [] name = "style" -> << "s", "t", "y", "l", "e" >>
    [] name = "noscript" -> << "n", "o", "s", "c", "r", "i", "p", "t" >>

RECURSIVE SourceOfAttrs(_)
SourceOfAttrs(attrs) ==
  IF attrs = << >> THEN << >>
  ELSE << " " >> \o NameChars(attrs[1][1]) \o << "=", "\"" >> \o attrs[1][2] \o << "\"" >>
       \o SourceOfAttrs(Tail(attrs))

\* The text of the document an event stands for: html_content is a str, and
\* what the parser has not parsed yet it keeps as text.
SourceOf(e) ==
  CASE e.ev = "starttag" -> << "<" >> \o NameChars(e.tag) \o SourceOfAttrs(e.attrs) \o << ">" >>
    [] e.ev = "endtag" -> << "<", "/" >> \o NameChars(e.tag) \o << ">" >>
    [] OTHER -> e.data

\* One step of HTMLParser.goahead.  Outside a script or style element each
\* event goes to its handler, and the start tag of such an element makes the
\* parser wait for its end tag.  While it waits, the input is kept unparsed in
\* rawdata; the end tag delivers what was kept as one piece of character data
\* and ends the wait.
FeedEvent(p, e) ==
  IF p.cdata_elem # NoSkip
  THEN IF e.ev = "endtag" /\ e.tag = p.cdata_elem
       THEN [handle_endtag(IF p.rawdata # << >> THEN handle_data(p, p.rawdata) ELSE p, e.tag)
               EXCEPT !.rawdata = << >>, !.cdata_elem = NoSkip]
       ELSE [p EXCEPT !.rawdata = @ \o SourceOf(e)]
  ELSE CASE e.ev = "starttag" ->
              [handle_starttag(p, e.tag, e.attrs)
                 EXCEPT !.cdata_elem = IF e.tag \in CDATA_CONTENT_ELEMENTS THEN e.tag ELSE @]
         [] e.ev = "endtag" -> handle_endtag(p, e.tag)
         [] OTHER -> handle_data(p, e.data)

\* parser.feed(html_content): the events of the document in order; close()
\* is never called.
RECURSIVE feed(_, _)
feed(p, html_content) ==
  IF html_content = << >> THEN p
  ELSE feed(FeedEvent(p, html_content[1]), Tail(html_content))

\* The length of the longest prefix of s made of characters of chars.
RECURSIVE RunLen(_, _)
RunLen(s, chars) ==
  IF s # << >> /\ s[1] \in chars THEN 1 + RunLen(Tail(s), chars) ELSE 0

Base64Chars == Letters \cup { "/" }

\* The length of the match of data:[^;]+;base64,[A-Za-z0-9+/=]+ at the start
\* of t, 0 when there is none.
DataUriMatchLen(t) ==
  LET head == << "d", "a", "t", "a", ":" >>
      mark == << ";", "b", "a", "s", "e", "6", "4", "," >>
      rest == SubSeq(t, Len(head) + 1, Len(t))
      n == RunLen(rest, { c \in { Ascii[i] : i \in 1..Len(Ascii) } : c # ";" })
      after == SubSeq(rest, n + 1, Len(rest))
      m == RunLen(SubSeq(after, Len(mark) + 1, Len(after)), Base64Chars)
  IN  IF StartsWith(t, head) /\ n > 0 /\ StartsWith(after, mark) /\ m > 0
      THEN Len(head) + n + Len(mark) + m
      ELSE 0

\* The length of the match of https?://[^\s]+ at the start of t.
BareUrlMatchLen(t) ==
  LET http == << "h", "t", "t", "p", ":", "/", "/" >>
      https == << "h", "t", "t", "p", "s", ":", "/", "/" >>
      pl == IF StartsWith(t, http) THEN Len(http)
            ELSE IF StartsWith(t, https) THEN Len(https) ELSE 0
      n == RunLen(SubSeq(t, pl + 1, Len(t)),
                  { c \in { Ascii[i] : i \in 1..Len(Ascii) } : c \notin Whitespace })
  IN  IF pl > 0 /\ n > 0 THEN pl + n ELSE 0

\* re.sub(pattern, '', text) for the two patterns of tokenize_html.
RECURSIVE SubDataUris(_)
SubDataUris(t) ==
  IF t = << >> THEN << >>
  ELSE LET m == DataUriMatchLen(t)
       IN  IF m > 0 THEN SubDataUris(SubSeq(t, m + 1, Len(t)))
           ELSE << t[1] >> \o SubDataUris(Tail(t))

RECURSIVE SubBareUrls(_)
SubBareUrls(t) ==
  IF t = << >> THEN << >>
  ELSE LET m == BareUrlMatchLen(t)
       IN  IF m > 0 THEN SubBareUrls(SubSeq(t, m + 1, Len(t)))
           ELSE << t[1] >> \o SubBareUrls(Tail(t))

\* The last place of the match of [a-zA-Z]+(?:[-'][a-zA-Z]+)* that starts at
\* place i of t (t[i] is a letter).
RECURSIVE WordEnd(_, _)
WordEnd(t, i) ==
  LET j == i + RunLen(SubSeq(t, i, Len(t)), Letters) - 1
  IN  IF j + 2 <= Len(t) /\ t[j + 1] \in { "-", "'" } /\ t[j + 2] \in Letters
      THEN WordEnd(t, j + 2)
      ELSE j

\* re.finditer over the text: (word, match.start()) for every match, from
\* place i on.  Every \w of the alphabet is a letter, so a match starts at
\* the first letter of a run and the closing \b holds where the run ends.
RECURSIVE WordMatches(_, _)
WordMatches(t, i) ==
  IF i > Len(t) THEN << >>
  ELSE IF t[i] \notin Letters THEN WordMatches(t, i + 1)
  ELSE LET e == WordEnd(t, i)
       IN  << << SubSeq(t, i, e), i - 1 >> >> \o WordMatches(t, e + 1)

\* tokenize_html(html_content, parser) with the parser the caller reuses:
\* the words with their positions, the raw hrefs, and the parser afterwards.
tokenize_html(html_content, parser) ==
  LET p == feed(reset_state(parser), html_content)
      text == SubBareUrls(SubDataUris(get_text(p)))
  IN  [words_with_positions |-> WordMatches(Lower(text), 1),
       urls |-> p.urls,
       parser |-> p]

\* ------------------------------------------------------------------------
\* Python dict: the keys in insertion order, and the value of each key
\* ------------------------------------------------------------------------

EmptyDict == [keys |-> << >>, val |-> [k \in {} |-> 0]]

DictHas(d, k) == k \in DOMAIN d.val

DictSet(d, k, v) ==
  IF DictHas(d, k) THEN [d EXCEPT !.val[k] = v]
  ELSE [keys |-> Append(d.keys, k), val |-> (k :> v) @@ d.val]

\* ------------------------------------------------------------------------
\* bfs_crawler.py: the crawler
\* ------------------------------------------------------------------------

RHF_INDEX == << "r", "h", "f", "/", "i", "n", "d", "e", "x", ".", "h", "t", "m", "l" >>

INDEX == << "i", "n", "d", "e", "x", ".", "h", "t", "m", "l" >>

\* The start file build_reverse_index passes, and the fallbacks of bfs_crawl.
configured_start == RHF_INDEX

potential_starts == << INDEX, RHF_INDEX >>

IsHtml(f) ==
  \/ EndsWith(f, << ".", "h", "t", "m", "l" >>)
  \/ EndsWith(f, << ".", "h", "t", "m" >>)

\* LinkExtractor: the hrefs of the anchors, in document order.
RECURSIVE LinkExtractor(_)
LinkExtractor(html_content) ==
  IF html_content = << >> THEN << >>
  ELSE LET e == html_content[1]
       IN  (IF e.ev = "starttag" /\ e.tag = "a" THEN HrefValues(e.attrs) ELSE << >>)
           \o LinkExtractor(Tail(html_content))

\* Lines 45-48: the links that normalize to a non-empty path.
RECURSIVE NormalizeLinks(_, _)
NormalizeLinks(links, current_file) ==
  IF links = << >> THEN << >>
  ELSE LET normalized == normalize_path(current_file, links[1])
       IN  (IF normalized # None /\ normalized # << >> THEN << normalized >> ELSE << >>)
           \o NormalizeLinks(Tail(links), current_file)

extract_links_from_html(html_content, current_file) ==
  NormalizeLinks(LinkExtractor(html_content), current_file)

\* Lines 54-64: the start file, None when no candidate is in the archive.
RECURSIVE FirstPresent(_, _)
FirstPresent(candidates, all_files) ==
  IF candidates = << >> THEN None
  ELSE IF candidates[1] \in all_files THEN candidates[1]
  ELSE FirstPresent(Tail(candidates), all_files)

ChooseStart(start, all_files) ==
  IF start \in all_files THEN start ELSE FirstPresent(potential_starts, all_files)

\* EnqueueOne marking nothing visited when it enqueues.
EnqueueOneUnmarked(qv, link, all_files) ==
  IF link \in all_files /\ link \notin qv.visited /\ IsHtml(link)
  THEN [queue |-> Append(qv.queue, link), visited |-> qv.visited]
  ELSE qv

\* Lines 77-80: one link of the page is enqueued and marked visited when it
\* is an unvisited HTML entry of the archive.
EnqueueOne(qv, link, all_files) ==
  IF link \in all_files /\ link \notin qv.visited /\ IsHtml(link)
  THEN [queue |-> Append(qv.queue, link), visited |-> qv.visited \cup { link }]
  ELSE qv

\* Lines 76-80: the loop over the links of the page.
RECURSIVE EnqueueLinks(_, _, _)
EnqueueLinks(qv, links, all_files) ==
  IF links = << >> THEN qv
  ELSE EnqueueLinks(EnqueueOne(qv, links[1], all_files), Tail(links), all_files)

\* queue.pop() instead of queue.pop(0): the frontier as a stack.
PopBack(q) == [item |-> q[Len(q)], rest |-> SubSeq(q, 1, Len(q) - 1)]

\* Line 68: queue.pop(0).
PopFront(q) == [item |-> Head(q), rest |-> Tail(q)]

\* ------------------------------------------------------------------------
\* indexer.py
\* ------------------------------------------------------------------------

\* Lines 19-24: word -> count and positions, for one document.
RECURSIVE WordData(_, _)
WordData(words_with_positions, word_data) ==
  IF words_with_positions = << >> THEN word_data
  ELSE LET word == words_with_positions[1][1]
           position == words_with_positions[1][2]
           old == IF DictHas(word_data, word) THEN word_data.val[word]
                  ELSE [count |-> 0, positions |-> << >>]
           new == [count |-> old.count + 1, positions |-> Append(old.positions, position)]
       IN  WordData(Tail(words_with_positions), DictSet(word_data, word, new))

\* Lines 26-28: url -> count, for one document.
RECURSIVE UrlCounts(_, _)
UrlCounts(urls, url_counts) ==
  IF urls = << >> THEN url_counts
  ELSE LET url == urls[1]
           old == IF DictHas(url_counts, url) THEN url_counts.val[url] ELSE 0
       IN  UrlCounts(Tail(urls), DictSet(url_counts, url, old + 1))

\* max(all_counts) if all_counts else 0
MaxOf(counts) ==
  IF counts = {} THEN 0 ELSE CHOOSE m \in counts : \A c \in counts : c <= m

\* Lines 29-31: the largest count of a word or a url of the document.
MaxFreq(word_data, url_counts) ==
  MaxOf({ word_data.val[w].count : w \in DOMAIN word_data.val }
        \cup { url_counts.val[u] : u \in DOMAIN url_counts.val })

\* temp_index[token][file] = data (lines 34-36 and 38-40).
SetPosting(index, token, file, data) ==
  LET doc_data == IF DictHas(index, token) THEN index.val[token] ELSE EmptyDict
  IN  DictSet(index, token, DictSet(doc_data, file, data))

\* Lines 33-36: the words of the document go into temp_index.
RECURSIVE AddWords(_, _, _, _)
AddWords(index, words, word_data, file) ==
  IF words = << >> THEN index
  ELSE AddWords(SetPosting(index, words[1], file, word_data.val[words[1]]),
                Tail(words), word_data, file)

\* Lines 37-40: the urls of the document go into temp_index, under the href
\* as the tokenizer returned it, with no positions.
RECURSIVE AddUrls(_, _, _, _)
AddUrls(index, urls, url_counts, file) ==
  IF urls = << >> THEN index
  ELSE AddUrls(SetPosting(index, urls[1], file,
                          [count |-> url_counts.val[urls[1]], positions |-> << >>]),
               Tail(urls), url_counts, file)

\* a sorted by StrLess: sorted() of Python over str keys.
RECURSIVE InsertSorted(_, _)
InsertSorted(sorted, k) ==
  IF sorted = << >> THEN << k >>
  ELSE IF StrLess(k, sorted[1]) THEN << k >> \o sorted
  ELSE << sorted[1] >> \o InsertSorted(Tail(sorted), k)

RECURSIVE Sorted(_)
Sorted(keys) ==
  IF keys = << >> THEN << >>
  ELSE InsertSorted(Sorted(SubSeq(keys, 1, Len(keys) - 1)), keys[Len(keys)])

\* The documents of one token in insertion (crawl) order, unsorted.
unsorted_docs(doc_data) == doc_data.keys

\* Line 47: the documents of one token in the order pass 2 visits them.
sorted_docs(doc_data) == Sorted(doc_data.keys)

\* math.log2(n / d), in thousandths, for the counts of the model.
Log2Table ==
  << << 0, -1000, -1585, -2000, -2322, -2585, -2807 >>,
     << 1000, 0, -585, -1000, -1322, -1585, -1807 >>,
     << 1585, 585, 0, -415, -737, -1000, -1222 >>,
     << 2000, 1000, 415, 0, -322, -585, -807 >>,
     << 2322, 1322, 737, 322, 0, -263, -485 >>,
     << 2585, 1585, 1000, 585, 263, 0, -222 >> >>

log2_ratio(n, d) == Log2Table[n][d]

\* The idf with the document count as it was before the last document.
IdfBeforeLastDocument(total_docs, df) ==
  log2_ratio(IF total_docs > 1 THEN total_docs - 1 ELSE total_docs, df + 1) + 1000

\* Line 55: idf = math.log2(total_docs / (df + 1)) + 1, in thousandths.
Idf(total_docs, df) == log2_ratio(total_docs, df + 1) + 1000

\* Lines 54-56: tf * idf with tf = term_freq / max_freq, in thousandths.
TfIdf(term_freq, max_freq, total_docs, df) ==
  IF max_freq > 0 THEN (term_freq * Idf(total_docs, df)) \div max_freq ELSE 0

\* math.sqrt of a number of millionths, in thousandths, rounded down.
RECURSIVE SqrtBetween(_, _, _)
SqrtBetween(lo, hi, n) ==
  IF lo >= hi THEN lo
  ELSE LET mid == (lo + hi + 1) \div 2
       IN  IF mid * mid <= n THEN SqrtBetween(mid, hi, n) ELSE SqrtBetween(lo, mid - 1, n)

Sqrt(n) == SqrtBetween(0, IF n < 46340 THEN n ELSE 46340, n)

\* Lines 50-65 for one token: its postings in sorted_docs order.
RECURSIVE DocObjects(_, _, _, _)
DocObjects(docs, doc_data, max_freqs, total_docs) ==
  IF docs = << >> THEN << >>
  ELSE LET doc_path == docs[1]
           data == doc_data.val[doc_path]
       IN  << [doc_id |-> doc_path,
               term_freq |-> data.count,
               tf_idf |-> TfIdf(data.count, max_freqs.val[doc_path], total_docs,
                                Len(doc_data.keys)),
               positions |-> data.positions] >>
           \o DocObjects(Tail(docs), doc_data, max_freqs, total_docs)

\* AddSquares with = for +=: the sum keeps only the last posting's square.
RECURSIVE AddSquaresOverwriting(_, _)
AddSquaresOverwriting(lengths, doc_objects) ==
  IF doc_objects = << >> THEN lengths
  ELSE LET d == doc_objects[1]
       IN  AddSquaresOverwriting(DictSet(lengths, d.doc_id, d.tf_idf * d.tf_idf),
                                 Tail(doc_objects))

\* Lines 57-59: tf_idf ** 2 of each posting is added to the document's sum.
RECURSIVE AddSquares(_, _)
AddSquares(lengths, doc_objects) ==
  IF doc_objects = << >> THEN lengths
  ELSE LET d == doc_objects[1]
           old == IF DictHas(lengths, d.doc_id) THEN lengths.val[d.doc_id] ELSE 0
       IN  AddSquares(DictSet(lengths, d.doc_id, old + d.tf_idf * d.tf_idf),
                      Tail(doc_objects))

\* Lines 46-69: pass 2 over the tokens of temp_index in insertion order.
RECURSIVE Pass2(_, _, _, _, _)
Pass2(tokens, index, max_freqs, total_docs, acc) ==
  IF tokens = << >> THEN acc
  ELSE LET token == tokens[1]
           doc_data == index.val[token]
           doc_objects == DocObjects(sorted_docs(doc_data), doc_data, max_freqs, total_docs)
       IN  Pass2(Tail(tokens), index, max_freqs, total_docs,
                 [reverse_index |-> DictSet(acc.reverse_index, token,
                                            [df |-> Len(doc_data.keys), docs |-> doc_objects]),
                  document_vector_lengths |-> AddSquares(acc.document_vector_lengths,
                                                         doc_objects)])

\* Lines 70-73: doc_id -> vector_length.
DocumentMap(lengths) ==
  [keys |-> lengths.keys,
   val |-> [d \in DOMAIN lengths.val |-> [vector_length |-> Sqrt(lengths.val[d])]]]

\* ------------------------------------------------------------------------
\* searcher.py
\* ------------------------------------------------------------------------

\* A message is the f-string that made it (kind), the terms and the count it
\* shows.
Message(kind, terms, count) == [kind |-> kind, terms |-> terms, count |-> count]

\* What a search returns: a list of results with a message, or None with a
\* message.
ResultList(results, message) == [signal |-> "list", results |-> results, message |-> message]

NoResultSet(message) == [signal |-> "none", results |-> << >>, message |-> message]

get_doc_ids(index, term) ==
  IF DictHas(index, term)
  THEN { index.val[term].docs[i].doc_id : i \in DOMAIN index.val[term].docs }
  ELSE {}

\* get_doc_data: the posting of doc_id under term in a one-element sequence,
\* the empty sequence for None.
get_doc_data(index, term, doc_id) ==
  IF DictHas(index, term)
  THEN LET docs == index.val[term].docs
           at == { i \in DOMAIN docs : docs[i].doc_id = doc_id }
       IN  IF at = {} THEN << >>
           ELSE << docs[CHOOSE i \in at : \A j \in at : i <= j] >>
  ELSE << >>

\* sorted() of a list of positions.
RECURSIVE InsertNumber(_, _)
InsertNumber(sorted, n) ==
  IF sorted = << >> THEN << n >>
  ELSE IF n < sorted[1] THEN << n >> \o sorted
  ELSE << sorted[1] >> \o InsertNumber(Tail(sorted), n)

RECURSIVE SortedNumbers(_)
SortedNumbers(ns) ==
  IF ns = << >> THEN << >>
  ELSE InsertNumber(SortedNumbers(SubSeq(ns, 1, Len(ns) - 1)), ns[Len(ns)])

\* The loop of aggregate_terms (lines 24-30).
RECURSIVE AggregateLoop(_, _, _, _)
AggregateLoop(index, terms, doc_id, acc) ==
  IF terms = << >> THEN acc
  ELSE LET doc == get_doc_data(index, terms[1], doc_id)
       IN  AggregateLoop(index, Tail(terms), doc_id,
             IF doc # << >>
             THEN [tf_idf |-> acc.tf_idf + doc[1].tf_idf,
                   freq |-> acc.freq + doc[1].term_freq,
                   positions |-> acc.positions \o doc[1].positions,
                   matched |-> Append(acc.matched, terms[1])]
             ELSE acc)

aggregate_terms(index, terms, doc_id) ==
  LET acc == AggregateLoop(index, terms, doc_id,
                           [tf_idf |-> 0, freq |-> 0, positions |-> << >>, matched |-> << >>])
  IN  [acc EXCEPT !.positions = SortedNumbers(@)]

\* Lines 46-50: the first position of the word, in list order, that is after
\* current_pos and within proximity of it; -1 when there is none.
RECURSIVE NextPositionAtDistance(_, _, _)
NextPositionAtDistance(positions, current_pos, proximity) ==
  IF positions = << >> THEN -1
  ELSE IF positions[1] = current_pos + proximity
  THEN positions[1]
  ELSE NextPositionAtDistance(Tail(positions), current_pos, proximity)

RECURSIVE NextPosition(_, _, _)
NextPosition(positions, current_pos, proximity) ==
  IF positions = << >> THEN -1
  ELSE IF positions[1] > current_pos /\ positions[1] <= current_pos + proximity
  THEN positions[1]
  ELSE NextPosition(Tail(positions), current_pos, proximity)

\* Lines 42-53: the words from the i-th on are found in sequence.
RECURSIVE FoundSequence(_, _, _, _, _)
FoundSequence(word_positions, words, i, current_pos, proximity) ==
  IF i > Len(words) THEN TRUE
  ELSE LET pos == NextPosition(word_positions.val[words[i]], current_pos, proximity)
       IN  IF pos = -1 THEN FALSE
           ELSE FoundSequence(word_positions, words, i + 1, pos, proximity)

check_proximity(word_positions, proximity) ==
  LET words == word_positions.keys
  IN  IF Len(words) < 2 THEN TRUE
      ELSE \E k \in DOMAIN word_positions.val[words[1]] :
             FoundSequence(word_positions, words, 2, word_positions.val[words[1]][k], proximity)

\* Line 70: {word: positions for word in words}, a dict: a repeated word is
\* one key.
RECURSIVE WordPositions(_, _, _, _)
WordPositions(index, words, doc_id, acc) ==
  IF words = << >> THEN acc
  ELSE WordPositions(index, Tail(words), doc_id,
                     DictSet(acc, words[1], get_doc_data(index, words[1], doc_id)[1].positions))

\* [x for x in seq if x not in reverse_index]
RECURSIVE MissingFrom(_, _)
MissingFrom(index, terms) ==
  IF terms = << >> THEN << >>
  ELSE (IF DictHas(index, terms[1]) THEN << >> ELSE << terms[1] >>)
       \o MissingFrom(index, Tail(terms))

\* doc_sets[0].intersection(*doc_sets[1:])
CommonDocs(index, terms) ==
  { d \in get_doc_ids(index, terms[1]) : \A i \in DOMAIN terms : d \in get_doc_ids(index, terms[i]) }

\* sorted(a set of doc ids)
RECURSIVE SortedSet(_)
SortedSet(set) ==
  IF set = {} THEN << >>
  ELSE LET least == CHOOSE x \in set : \A y \in set : x = y \/ StrLess(x, y)
       IN  << least >> \o SortedSet(set \ { least })

\* f'"{phrase}" (within {proximity} chars)'
PhraseLabel(phrase, proximity_digits) ==
  << "\"" >> \o phrase \o << "\"", " ", "(", "w", "i", "t", "h", "i", "n", " " >> \o proximity_digits
    \o << " ", "c", "h", "a", "r", "s", ")" >>

\* Lines 69-79 of phrase_search: the results, document by document.
RECURSIVE PhraseResults(_, _, _, _, _)
PhraseResults(index, words, docs, proximity, proximity_digits) ==
  IF docs = << >> THEN << >>
  ELSE LET doc_id == docs[1]
           word_positions == WordPositions(index, words, doc_id, EmptyDict)
           agg == aggregate_terms(index, words, doc_id)
       IN  (IF check_proximity(word_positions, proximity)
            THEN << [doc_id |-> doc_id, term_freq |-> agg.freq, tf_idf |-> agg.tf_idf,
                     positions |-> agg.positions,
                     matched_term |-> PhraseLabel(Join(<< " " >>, words), proximity_digits)] >>
            ELSE << >>)
           \o PhraseResults(index, words, Tail(docs), proximity, proximity_digits)

phrase_search(index, words, proximity, proximity_digits) ==
  LET missing_words == MissingFrom(index, words)
      common_docs == CommonDocs(index, words)
      results == PhraseResults(index, words, SortedSet(common_docs), proximity, proximity_digits)
  IN  IF missing_words # << >>
      THEN ResultList(<< >>, Message("phrase_words_not_in_index", missing_words, 0))
      ELSE IF common_docs = {}
      THEN ResultList(<< >>, Message("phrase_no_common_document", words, 0))
      ELSE IF results = << >>
      THEN ResultList(<< >>, Message("phrase_not_within", words, 0))
      ELSE ResultList(results, Message("phrase_found", words, Len(results)))

\* str(n) of a natural number, as the f-strings format it.
DigitChars == << "0", "1", "2", "3", "4", "5", "6", "7", "8", "9" >>

RECURSIVE Str(_)
Str(n) == IF n < 10 THEN << DigitChars[n + 1] >>
          ELSE Str(n \div 10) \o << DigitChars[(n % 10) + 1] >>

\* The default proximity of enhanced_search, and its decimal digits.
proximity_default == 100

proximity_default_digits == << "1", "0", "0" >>

\* The count of a term stopping at two.
RECURSIVE QueryTermCountsCapped(_, _)
QueryTermCountsCapped(query_terms, counts) ==
  IF query_terms = << >> THEN counts
  ELSE LET old == IF DictHas(counts, query_terms[1]) THEN counts.val[query_terms[1]] ELSE 0
       IN  QueryTermCountsCapped(Tail(query_terms),
                                 DictSet(counts, query_terms[1], IF old >= 2 THEN 2 ELSE old + 1))

\* Lines 89-90: term -> number of occurrences in the query.
RECURSIVE QueryTermCounts(_, _)
QueryTermCounts(query_terms, counts) ==
  IF query_terms = << >> THEN counts
  ELSE LET old == IF DictHas(counts, query_terms[1]) THEN counts.val[query_terms[1]] ELSE 0
       IN  QueryTermCounts(Tail(query_terms), DictSet(counts, query_terms[1], old + 1))

\* Lines 92-98: the weight of each query term that is in the index.
RECURSIVE QueryVector(_, _, _, _, _)
QueryVector(index, terms, counts, total_docs, acc) ==
  IF terms = << >> THEN acc
  ELSE LET term == terms[1]
           max_freq_in_query == MaxOf({ counts.val[t] : t \in DOMAIN counts.val })
       IN  QueryVector(index, Tail(terms), counts, total_docs,
             IF DictHas(index, term)
             THEN DictSet(acc, term,
                          (counts.val[term] * Idf(total_docs, index.val[term].df))
                            \div max_freq_in_query)
             ELSE acc)

RECURSIVE SumOfSquares(_, _)
SumOfSquares(keys, vector) ==
  IF keys = << >> THEN 0
  ELSE vector.val[keys[1]] * vector.val[keys[1]] + SumOfSquares(Tail(keys), vector)

\* Lines 105-110: the dot product of the query and one document, in
\* millionths.
RECURSIVE DotProduct(_, _, _, _)
DotProduct(index, keys, query_vector, doc_id) ==
  IF keys = << >> THEN 0
  ELSE LET doc == get_doc_data(index, keys[1], doc_id)
       IN  (IF doc # << >> THEN query_vector.val[keys[1]] * doc[1].tf_idf ELSE 0)
           + DotProduct(index, Tail(keys), query_vector, doc_id)

\* Line 113: dot / (doc length * query length), in thousandths.
Cosine(dot, doc_vector_length, query_vector_length) ==
  ((dot \div doc_vector_length) * 1000) \div query_vector_length

\* Lines 104-119: the documents of document_map with a positive similarity.
RECURSIVE Similarities(_, _, _, _, _)
Similarities(index, map, docs, query_vector, query_vector_length) ==
  IF docs = << >> THEN << >>
  ELSE LET doc_id == docs[1]
           dot == DotProduct(index, query_vector.keys, query_vector, doc_id)
           doc_vector_length == map.val[doc_id].vector_length
           cosine_similarity ==
             IF doc_vector_length > 0 /\ query_vector_length > 0
             THEN Cosine(dot, doc_vector_length, query_vector_length) ELSE 0
       IN  (IF cosine_similarity > 0
            THEN << [doc_id |-> doc_id, similarity |-> cosine_similarity,
                     matched_terms |-> query_vector.keys] >>
            ELSE << >>)
           \o Similarities(index, map, Tail(docs), query_vector, query_vector_length)

\* list.sort(key, reverse=True) over (score, item) pairs: descending by
\* score, equal scores in their former order.
RECURSIVE InsertDescending(_, _)
InsertDescending(sorted, r) ==
  IF sorted = << >> THEN << r >>
  ELSE IF r.score > sorted[1].score THEN << r >> \o sorted
  ELSE << sorted[1] >> \o InsertDescending(Tail(sorted), r)

RECURSIVE SortDescending(_)
SortDescending(rs) ==
  IF rs = << >> THEN << >>
  ELSE InsertDescending(SortDescending(SubSeq(rs, 1, Len(rs) - 1)), rs[Len(rs)])

\* Line 120: similarities.sort(key=lambda x: x['similarity'], reverse=True)
SortBySimilarity(rs) ==
  LET scored == [i \in DOMAIN rs |-> [score |-> rs[i].similarity, item |-> rs[i]]]
      sorted == SortDescending(scored)
  IN  [i \in DOMAIN sorted |-> sorted[i].item]

vector_space_search(index, map, query_terms) ==
  LET total_docs == Len(map.keys)
      counts == QueryTermCounts(query_terms, EmptyDict)
      query_vector == QueryVector(index, counts.keys, counts, total_docs, EmptyDict)
      query_vector_length == Sqrt(SumOfSquares(query_vector.keys, query_vector))
      similarities == Similarities(index, map, map.keys, query_vector, query_vector_length)
  IN  IF query_vector.keys = << >>
      THEN ResultList(<< >>, Message("vector_no_terms_in_index", << >>, 0))
      ELSE ResultList(SortBySimilarity(similarities),
                      Message("vector_found", << >>, Len(similarities)))

\* The separators of the boolean queries.
SEP_OR == << " ", "o", "r", " " >>

SEP_BUT == << " ", "b", "u", "t", " " >>

SEP_AND == << " ", "a", "n", "d", " " >>

\* [term.strip() for term in parts]
StripEach(parts) == [i \in DOMAIN parts |-> Strip(parts[i])]

\* Line 125: the query starts and ends with the same quote character.
IsQuoted(query) ==
  \/ StartsWith(query, << "\"" >>) /\ EndsWith(query, << "\"" >>)
  \/ StartsWith(query, << "'" >>) /\ EndsWith(query, << "'" >>)

\* The result record of a posting (lines 143-149, 168-174, 214-220).
PostingResult(doc, matched_term) ==
  [doc_id |-> doc.doc_id, term_freq |-> doc.term_freq, tf_idf |-> doc.tf_idf,
   positions |-> doc.positions, matched_term |-> matched_term]

\* Appends a record for every document of the term, found before or not.
RECURSIVE OrTermWithoutSeenSet(_, _, _, _)
OrTermWithoutSeenSet(index, term, doc_ids, acc) ==
  IF doc_ids = << >> THEN acc
  ELSE OrTermWithoutSeenSet(index, term, Tail(doc_ids),
         [results |-> Append(acc.results,
                             PostingResult(get_doc_data(index, term, doc_ids[1])[1], term)),
          found_docs |-> acc.found_docs \cup { doc_ids[1] }])

\* Lines 140-150: the documents of one term, in the order the set gives them.
RECURSIVE OrTerm(_, _, _, _)
OrTerm(index, term, doc_ids, acc) ==
  IF doc_ids = << >> THEN acc
  ELSE LET doc_id == doc_ids[1]
       IN  OrTerm(index, term, Tail(doc_ids),
             IF doc_id \notin acc.found_docs
             THEN [results |-> Append(acc.results,
                                      PostingResult(get_doc_data(index, term, doc_id)[1], term)),
                   found_docs |-> acc.found_docs \cup { doc_id }]
             ELSE acc)

\* The loop stopped after the first term.
OrLoopFirstTermOnly(index, terms, i, set_orders, acc) ==
  OrTerm(index, terms[1], set_orders[1], acc)

\* Lines 139-150: the loop over the terms; set_orders[i] is the order in
\* which the set of the i-th term's doc ids is iterated.
RECURSIVE OrLoop(_, _, _, _, _)
OrLoop(index, terms, i, set_orders, acc) ==
  IF i > Len(terms) THEN acc
  ELSE OrLoop(index, terms, i + 1, set_orders, OrTerm(index, terms[i], set_orders[i], acc))

\* Lines 133-153.
OrQuery(index, query, set_orders) ==
  LET terms == StripEach(Split(query, SEP_OR))
      results == OrLoop(index, terms, 1, set_orders, [results |-> << >>, found_docs |-> {}]).results
  IN  IF Len(terms) < 2 THEN NoResultSet(Message("or_invalid", << >>, 0))
      ELSE ResultList(results, Message("or_found", terms, Len(results)))

\* f"{term1} (but not {term2})"
ButLabel(term1, term2) ==
  term1 \o << " ", "(", "b", "u", "t", " ", "n", "o", "t", " " >> \o term2 \o << ")" >>

\* Lines 166-174.
RECURSIVE ButResults(_, _, _, _)
ButResults(index, term1, term2, docs) ==
  IF docs = << >> THEN << >>
  ELSE << PostingResult(get_doc_data(index, term1, docs[1])[1], ButLabel(term1, term2)) >>
       \o ButResults(index, term1, term2, Tail(docs))

\* Lines 155-175.
ButQuery(index, query) ==
  LET terms == StripEach(Split(query, SEP_BUT))
      term1 == terms[1]
      term2 == terms[2]
      result_docs == get_doc_ids(index, term1) \ get_doc_ids(index, term2)
      results == ButResults(index, term1, term2, SortedSet(result_docs))
  IN  IF Len(terms) # 2 THEN NoResultSet(Message("but_invalid", << >>, 0))
      ELSE IF ~DictHas(index, term1)
      THEN ResultList(<< >>, Message("but_first_term_not_in_index", << term1 >>, 0))
      ELSE IF result_docs = {}
      THEN ResultList(<< >>, Message("but_none", terms, 0))
      ELSE ResultList(results, Message("but_found", terms, Len(results)))

\* Lines 189-197.
RECURSIVE AndResults(_, _, _)
AndResults(index, terms, docs) ==
  IF docs = << >> THEN << >>
  ELSE LET agg == aggregate_terms(index, terms, docs[1])
       IN  << [doc_id |-> docs[1], term_freq |-> agg.freq, tf_idf |-> agg.tf_idf,
               positions |-> agg.positions,
               matched_term |-> Join(<< ",", " " >>, agg.matched)] >>
           \o AndResults(index, terms, Tail(docs))

\* The union of the doc sets where the code intersects them.
AnyDocs(index, terms) ==
  UNION { get_doc_ids(index, terms[i]) : i \in DOMAIN terms }

\* The AND branch over the union of the doc sets.
AndQueryOverAnyDocs(index, query) ==
  LET terms == StripEach(Split(query, SEP_AND))
      missing_terms == MissingFrom(index, terms)
      common_docs == AnyDocs(index, terms)
      results == AndResults(index, terms, SortedSet(common_docs))
  IN  IF Len(terms) < 2 THEN NoResultSet(Message("and_invalid", << >>, 0))
      ELSE IF missing_terms # << >>
      THEN ResultList(<< >>, Message("and_terms_not_in_index", missing_terms, 0))
      ELSE IF common_docs = {}
      THEN ResultList(<< >>, Message("and_none", terms, 0))
      ELSE ResultList(results, Message("and_found", terms, Len(results)))

\* Lines 177-200.
AndQuery(index, query) ==
  LET terms == StripEach(Split(query, SEP_AND))
      missing_terms == MissingFrom(index, terms)
      common_docs == CommonDocs(index, terms)
      results == AndResults(index, terms, SortedSet(common_docs))
  IN  IF Len(terms) < 2 THEN NoResultSet(Message("and_invalid", << >>, 0))
      ELSE IF missing_terms # << >>
      THEN ResultList(<< >>, Message("and_terms_not_in_index", missing_terms, 0))
      ELSE IF common_docs = {}
      THEN ResultList(<< >>, Message("and_none", terms, 0))
      ELSE ResultList(results, Message("and_found", terms, Len(results)))

\* Lines 209-223.
SingleTerm(index, query) ==
  IF DictHas(index, query)
  THEN LET docs == index.val[query].docs
       IN  ResultList([i \in DOMAIN docs |-> PostingResult(docs[i], query)],
                      Message("single_found", << query >>, Len(docs)))
  ELSE ResultList(<< >>, Message("single_none", << query >>, 0))

\* document_map=None, the default of enhanced_search.
NoMap == [none |-> TRUE]

\* Lines 202-207: document_map is None when no map is passed.
FreeText(index, words, map) ==
  IF "none" \notin DOMAIN map THEN vector_space_search(index, map, words)
  ELSE phrase_search(index, words, proximity_default, proximity_default_digits)

\* Dispatch testing ' and ' before ' or ' and ' but '.
DispatchAndFirst(index, query, map, set_orders) ==
  IF Contains(query, SEP_AND) THEN AndQuery(index, query)
  ELSE IF Contains(query, SEP_OR) THEN OrQuery(index, query, set_orders)
  ELSE IF Contains(query, SEP_BUT) THEN ButQuery(index, query)
  ELSE IF Len(SplitWs(query)) > 1 THEN FreeText(index, SplitWs(query), map)
  ELSE SingleTerm(index, query)

\* Lines 132-223: the query after the quoted-phrase test.
Dispatch(index, query, map, set_orders) ==
  IF Contains(query, SEP_OR) THEN OrQuery(index, query, set_orders)
  ELSE IF Contains(query, SEP_BUT) THEN ButQuery(index, query)
  ELSE IF Contains(query, SEP_AND) THEN AndQuery(index, query)
  ELSE IF Len(SplitWs(query)) > 1 THEN FreeText(index, SplitWs(query), map)
  ELSE SingleTerm(index, query)

\* Lines 124-131: the query as the boolean tests see it, and the words of a
\* quoted phrase.
Unquote(raw_query) ==
  LET query == Lower(Strip(raw_query))
      phrase_query == Strip(SubSeq(query, 2, Len(query) - 1))
      words == SplitWs(phrase_query)
  IN  IF IsQuoted(query)
      THEN [phrase |-> Len(words) > 1, words |-> words, query |-> phrase_query]
      ELSE [phrase |-> FALSE, words |-> << >>, query |-> query]

enhanced_search(index, raw_query, map, set_orders) ==
  LET u == Unquote(raw_query)
  IN  IF u.phrase
      THEN phrase_search(index, u.words, proximity_default, proximity_default_digits)
      ELSE Dispatch(index, u.query, map, set_orders)

\* The orders in which a set of doc ids can be iterated.
Orders(set) ==
  { s \in [1..Cardinality(set) -> set] : \A i, j \in DOMAIN s : i # j => s[i] # s[j] }

\* What the iteration orders of the sets of an OR query can be; one empty
\* choice for any other query.
RECURSIVE SetOrdersOf(_, _)
SetOrdersOf(index, terms) ==
  IF terms = << >> THEN { << >> }
  ELSE { << first >> \o rest : first \in Orders(get_doc_ids(index, terms[1])),
                               rest \in SetOrdersOf(index, Tail(terms)) }

SetOrders(index, raw_query) ==
  LET u == Unquote(raw_query)
  IN  IF ~u.phrase /\ Contains(u.query, SEP_OR)
      THEN SetOrdersOf(index, StripEach(Split(u.query, SEP_OR)))
      ELSE { << >> }

\* ------------------------------------------------------------------------
\* result_manager.py
\* ------------------------------------------------------------------------

\* r.get('similarity', r.get('tf_idf', 0))
RelevanceOf(r) ==
  IF "similarity" \in DOMAIN r THEN r.similarity
  ELSE IF "tf_idf" \in DOMAIN r THEN r.tf_idf ELSE 0

\* Keeps every doc_id, whatever top_n is.
save_all_results(results, top_n) ==
  LET scored == [i \in DOMAIN results |-> [score |-> RelevanceOf(results[i]), item |-> results[i]]]
      sorted_results == SortDescending(scored)
  IN  [i \in DOMAIN sorted_results |-> sorted_results[i].item.doc_id]

\* ResultManager.save_top_results(results, query, top_n): the new value of
\* top_results.
save_top_results(results, top_n) ==
  LET scored == [i \in DOMAIN results |-> [score |-> RelevanceOf(results[i]), item |-> results[i]]]
      sorted_results == SortDescending(scored)
      kept == IF Len(sorted_results) < top_n THEN Len(sorted_results) ELSE top_n
  IN  [i \in 1..kept |-> sorted_results[i].item.doc_id]

\* SearchGUI.save_top_results: top_n=5.
top_n_default == 5

\* ------------------------------------------------------------------------
\* Query reformulation: extract_keywords, calculate_correlations and
\* SearchGUI.reformulate_query
\* ------------------------------------------------------------------------

\* extract_keywords: the terms with a posting in one of the documents.  The
\* code returns list(a set): the order of the keywords is not determined.
extract_keywords(top_doc_ids, index) ==
  { index.keys[i] : i \in { j \in DOMAIN index.keys :
      \E k \in DOMAIN top_doc_ids : top_doc_ids[k] \in get_doc_ids(index, index.keys[j]) } }

\* correlation.py line 19: [term.strip().lower() for term in query.split()]
QueryTermsOf(query) == SplitWs(Lower(query))

\* correlation.py lines 40-43: the sum over the common documents.
RECURSIVE CommonScore(_, _, _, _)
CommonScore(index, query_term, keyword, docs) ==
  IF docs = << >> THEN 0
  ELSE get_doc_data(index, query_term, docs[1])[1].tf_idf
       + get_doc_data(index, keyword, docs[1])[1].tf_idf
       + CommonScore(index, query_term, keyword, Tail(docs))

\* correlation.py lines 24-45: the score of one keyword, query term by query
\* term.
RECURSIVE KeywordScore(_, _, _)
KeywordScore(index, query_terms, keyword) ==
  IF query_terms = << >> THEN 0
  ELSE (IF ~DictHas(index, query_terms[1]) \/ ~DictHas(index, keyword) THEN 0
        ELSE CommonScore(index, query_terms[1], keyword,
                         SortedSet(get_doc_ids(index, query_terms[1])
                                     \cap get_doc_ids(index, keyword))))
       + KeywordScore(index, Tail(query_terms), keyword)

\* calculate_correlations: keyword -> score, as a sequence of pairs.
RECURSIVE calculate_correlations(_, _, _)
calculate_correlations(query, keywords, index) ==
  IF keywords = << >> THEN << >>
  ELSE << [keyword |-> keywords[1],
           score |-> KeywordScore(index, QueryTermsOf(query), keywords[1])] >>
       \o calculate_correlations(query, Tail(keywords), index)

\* SearchGUI.reformulate_query: top_n_keywords=3.
top_n_keywords_default == 3

\* gui.py lines 321-322: the first n keywords of the stable descending sort
\* of the correlations.  The sort keeps keywords of equal score in the order
\* extract_keywords listed them, which is any order: every sequence of n
\* keywords in descending score that leaves no higher score out can result.
TopKeywords(correlations, n) ==
  LET m == IF Len(correlations) < n THEN Len(correlations) ELSE n
  IN  { [i \in 1..m |-> correlations[pick[i]].keyword] :
          pick \in { f \in [1..m -> DOMAIN correlations] :
                       /\ \A i, j \in 1..m : i < j =>
                            /\ f[i] # f[j]
                            /\ correlations[f[i]].score >= correlations[f[j]].score
                       /\ \A k \in DOMAIN correlations :
                            (\A i \in 1..m : f[i] # k) =>
                              correlations[k].score <= correlations[f[m]].score } }

\* gui.py line 328: the keywords that are no term of the original query.
RECURSIVE UniqueKeywords(_, _)
UniqueKeywords(top_keywords, query_terms_set) ==
  IF top_keywords = << >> THEN << >>
  ELSE (IF Lower(top_keywords[1]) \in query_terms_set THEN << >> ELSE << top_keywords[1] >>)
       \o UniqueKeywords(Tail(top_keywords), query_terms_set)

\* What a call of reformulate_query ends with: None, a query, or the
\* exception of reading a local that was never assigned.
NotReformulated == [outcome |-> "not called", query |-> << >>, unique_keywords |-> << >>]

ReturnedNone == [outcome |-> "none", query |-> << >>, unique_keywords |-> << >>]

RaisedUnboundLocal == [outcome |-> "raised", query |-> << >>, unique_keywords |-> << >>]

\* Returns the original query and a space when no keyword is left.
ReturnReformulatedAlways(original_query, unique_keywords) ==
  [outcome |-> "query",
   query |-> original_query \o << " " >> \o Join(<< " " >>, unique_keywords),
   unique_keywords |-> unique_keywords]

\* gui.py lines 331-334: reformulated is assigned only when a keyword is
\* left; return reformulated reads it in every case.
ReturnReformulated(original_query, unique_keywords) ==
  IF unique_keywords # << >>
  THEN [outcome |-> "query",
        query |-> original_query \o << " " >> \o Join(<< " " >>, unique_keywords),
        unique_keywords |-> unique_keywords]
  ELSE RaisedUnboundLocal

\* SearchGUI.reformulate_query(original_query): the ways the call can end.
reformulate_query(original_query, top_doc_ids, index) ==
  LET keywords == extract_keywords(top_doc_ids, index)
      correlations == calculate_correlations(original_query, SortedSet(keywords), index)
      query_terms_set == Range(SplitWs(Lower(original_query)))
  IN  IF top_doc_ids = << >> THEN { ReturnedNone }
      ELSE IF keywords = {} THEN { ReturnedNone }
      ELSE IF correlations = << >> THEN { ReturnedNone }
      ELSE { ReturnReformulated(original_query, UniqueKeywords(top_keywords, query_terms_set)) :
               top_keywords \in TopKeywords(correlations, top_n_keywords_default) }

\* ------------------------------------------------------------------------
\* The archives and pages of the model
\* ------------------------------------------------------------------------

\* "rhf/a.html"
PAGE_A == << "r", "h", "f", "/", "a", ".", "h", "t", "m", "l" >>

\* "b.htm"
PAGE_B == << "b", ".", "h", "t", "m" >>

\* "secret.html"
SECRET == << "s", "e", "c", "r", "e", "t", ".", "h", "t", "m", "l" >>

\* "n.txt"
NOTES == << "n", ".", "t", "x", "t" >>

\* "a/b/page.html"
DEEP_PAGE == << "a", "/", "b", "/", "p", "a", "g", "e", ".", "h", "t", "m", "l" >>

\* "a/secret.html"
A_SECRET == << "a", "/", "s", "e", "c", "r", "e", "t", ".", "h", "t", "m", "l" >>

\* "a.html"
HREF_A_REL == << "a", ".", "h", "t", "m", "l" >>

\* "../b.htm#top"
HREF_B_UP == << ".", ".", "/", "b", ".", "h", "t", "m", "#", "t", "o", "p" >>

\* "index.html"
HREF_INDEX_REL == << "i", "n", "d", "e", "x", ".", "h", "t", "m", "l" >>

\* "/b.htm"
HREF_B_ABS == << "/", "b", ".", "h", "t", "m" >>

\* "../secret.html"
HREF_SECRET_UP == << ".", ".", "/", "s", "e", "c", "r", "e", "t", ".", "h", "t", "m", "l" >>

\* "rhf/a.html?x"
HREF_A_QUERY == << "r", "h", "f", "/", "a", ".", "h", "t", "m", "l", "?", "x" >>

\* "http://e.x/a.html"
HREF_EXTERNAL == << "h", "t", "t", "p", ":", "/", "/", "e", ".", "x", "/", "a", ".", "h", "t", "m", "l" >>

\* "n.txt"
HREF_NOTES == << "n", ".", "t", "x", "t" >>

\* "a/b/page.html"
HREF_DEEP == << "a", "/", "b", "/", "p", "a", "g", "e", ".", "h", "t", "m", "l" >>

\* "./secret.html"
HREF_SECRET_DOT == << ".", "/", "s", "e", "c", "r", "e", "t", ".", "h", "t", "m", "l" >>

\* "/index.html"
HREF_INDEX_ABS == << "/", "i", "n", "d", "e", "x", ".", "h", "t", "m", "l" >>

\* "a b a"
TEXT_INDEX == << "a", " ", "b", " ", "a" >>

\* "b c"
TEXT_A == << "b", " ", "c" >>

\* "c "
TEXT_B1 == << "c", " " >>

\* "a-b c"
TEXT_B2 == << "a", "-", "b", " ", "c" >>

\* "a"
TEXT_SECRET == << "a" >>

\* "x y"
TEXT_SCRIPT == << "x", " ", "y" >>

\* "b"
TEXT_DEEP == << "b" >>

\* "c a"
TEXT_A_SECRET == << "c", " ", "a" >>

\* The sequences of at most MaxLinks hrefs of a pool.
LinkLists(pool) == UNION { [1..n -> pool] : n \in 0..MaxLinks }

Anchors(hrefs) == [i \in 1..Len(hrefs) |-> Anchor(hrefs[i])]

\* A page: its anchors, then its text.
Page(hrefs, text) == Anchors(hrefs) \o << Data(text) >>

\* A page with a script element before the anchors.
ScriptPage(hrefs, text) ==
  << StartTag("script", << >>), Data(TEXT_SCRIPT), EndTag("script") >> \o Page(hrefs, text)

\* A page with text before and after the anchors.
SplitPage(hrefs, before, after) == << Data(before) >> \o Anchors(hrefs) \o << Data(after) >>

\* The site under rhf/: the configured start file is present.
SiteArchives ==
  { (RHF_INDEX :> Page(l1, TEXT_INDEX)) @@ (PAGE_A :> ScriptPage(l2, TEXT_A))
      @@ (PAGE_B :> SplitPage(l3, TEXT_B1, TEXT_B2)) @@ (SECRET :> Page(l4, TEXT_SECRET))
      @@ (NOTES :> << >>) :
    l1 \in LinkLists({ HREF_A_REL, HREF_B_UP }),
    l2 \in LinkLists({ HREF_INDEX_REL, HREF_B_ABS }),
    l3 \in { << >>, << HREF_SECRET_UP >>, << HREF_A_QUERY >>, << HREF_SECRET_UP, HREF_A_QUERY >>,
             << HREF_A_QUERY, HREF_SECRET_UP >> },
    l4 \in { << >>, << HREF_EXTERNAL >>, << HREF_NOTES, HREF_A_QUERY >> } }

\* The configured start file is absent and index.html is the fallback.
FallbackArchives ==
  { (INDEX :> Page(l1, TEXT_INDEX)) @@ (DEEP_PAGE :> Page(l2, TEXT_DEEP))
      @@ (SECRET :> Page(<< >>, TEXT_SECRET)) @@ extra :
    l1 \in LinkLists({ HREF_DEEP, HREF_SECRET_DOT }),
    l2 \in LinkLists({ HREF_SECRET_UP, HREF_INDEX_ABS }),
    extra \in { (A_SECRET :> Page(<< >>, TEXT_A_SECRET)), (NOTES :> << >>) } }

\* No start file at all.
NoStartArchives ==
  { (PAGE_A :> Page(<< HREF_B_ABS >>, TEXT_A)) @@ (PAGE_B :> Page(<< >>, TEXT_B2)) }

\* "b": an href that is also a word of the page.
HREF_WORD == << "b" >>

\* A page that ends inside a script element.
UnclosedScriptPage(hrefs, text) ==
  Page(hrefs, text) \o << StartTag("script", << >>), Data(TEXT_SCRIPT) >>

\* Sites with a page that has an href equal to one of its words, a page that
\* ends inside a script element, or a page without any word or link.
OddArchives ==
  { (RHF_INDEX :> p1) @@ (PAGE_A :> p2) @@ (PAGE_B :> p3) :
    p1 \in { Page(<< HREF_WORD, HREF_A_REL, HREF_B_UP >>, TEXT_INDEX),
             Page(<< HREF_WORD, HREF_A_REL, HREF_WORD, HREF_B_UP >>, TEXT_INDEX),
             UnclosedScriptPage(<< HREF_A_REL, HREF_B_UP >>, TEXT_INDEX),
             Page(<< HREF_A_REL, HREF_B_UP >>, TEXT_INDEX) },
    p2 \in { << >>, Page(<< >>, TEXT_A) },
    p3 \in { ScriptPage(<< >>, TEXT_B2), Page(<< >>, TEXT_B2) } }

Archives == SiteArchives \cup FallbackArchives \cup NoStartArchives \cup OddArchives

\* ------------------------------------------------------------------------
\* The indexing run: build_reverse_index driving the bfs_crawl generator
\* ------------------------------------------------------------------------

VARIABLES
  archive,              \* the entries of the ZIP file: name -> document
  unreadable,           \* the entries whose read fails
  pc,                   \* where the run is
  start_file, queue, visited, current_file,      \* the locals of bfs_crawl
  yielded,              \* the files bfs_crawl has yielded, in order
  files_crawled, total_words_indexed, parser,    \* the locals of
  temp_index, doc_max_freqs,                     \*   build_reverse_index
  reverse_index, document_map,                   \* what build_reverse_index returns
  searches,             \* the number of searches of the session
  search_term,          \* the query of the last search
  search_result,        \* what enhanced_search returned for it
  top_results,          \* ResultManager.top_results
  reformulation,        \* how reformulate_query ended in the last search
  phrase_call           \* a direct call of phrase_search: its arguments and what it returned

crawl_vars == << start_file, queue, visited, current_file, yielded >>

index_vars == << files_crawled, total_words_indexed, parser, temp_index, doc_max_freqs >>

built_vars == << reverse_index, document_map >>

session_vars == << searches, search_term, search_result, top_results, reformulation, phrase_call >>

vars == << archive, unreadable, pc, crawl_vars, index_vars, built_vars, session_vars >>

all_files == DOMAIN archive

\* No search has been made.
NoSearch == [signal |-> "no search", results |-> << >>, message |-> Message("", << >>, 0)]

\* phrase_search has not been called directly.
NoPhraseCall == [words |-> << >>, proximity |-> 0, result |-> NoSearch]

InitRun ==
  /\ pc = "start"
  /\ start_file = configured_start
  /\ queue = << >>
  /\ visited = {}
  /\ current_file = None
  /\ yielded = << >>
  /\ files_crawled = 0
  /\ total_words_indexed = 0
  /\ parser = NewParser
  /\ temp_index = EmptyDict
  /\ doc_max_freqs = EmptyDict
  /\ reverse_index = EmptyDict
  /\ document_map = EmptyDict
  /\ searches = 0
  /\ search_term = << >>
  /\ search_result = NoSearch
  /\ top_results = << >>
  /\ reformulation = NotReformulated
  /\ phrase_call = NoPhraseCall

Init ==
  /\ archive \in Archives
  /\ unreadable = {}
  /\ InitRun

\* bfs_crawl lines 52-66: the archive is opened and the frontier is seeded.
CrawlStart ==
  /\ pc = "start"
  /\ LET start == ChooseStart(start_file, all_files)
     IN  /\ start_file' = start
         /\ queue' = << start >>
         /\ visited' = { start }
  /\ pc' = "loop"
  /\ UNCHANGED << archive, unreadable, current_file, yielded, index_vars, built_vars, session_vars >>

\* bfs_crawl lines 67-73: a file is dequeued, read and yielded.  None has no
\* endswith (AttributeError) and a failing read raises out of the generator.
CrawlVisit ==
  /\ pc = "loop"
  /\ queue # << >>
  /\ LET popped == PopFront(queue)
         file == popped.item
     IN  /\ queue' = popped.rest
         /\ current_file' = file
         /\ pc' = IF file = None THEN "raised"
                  ELSE IF ~IsHtml(file) THEN "loop"
                  ELSE IF file \in unreadable THEN "raised"
                  ELSE "yielded"
         /\ yielded' = IF file # None /\ IsHtml(file) /\ file \notin unreadable
                       THEN Append(yielded, file) ELSE yielded
  /\ UNCHANGED << archive, unreadable, start_file, visited, index_vars, built_vars, session_vars >>

\* build_reverse_index lines 17-40: the body of the loop for one document.
IndexDocument ==
  /\ pc = "yielded"
  /\ LET tokens == tokenize_html(archive[current_file], parser)
         word_data == WordData(tokens.words_with_positions, EmptyDict)
         url_counts == UrlCounts(tokens.urls, EmptyDict)
     IN  /\ files_crawled' = files_crawled + 1
         /\ parser' = tokens.parser
         /\ total_words_indexed' = total_words_indexed + Len(word_data.keys)
         /\ doc_max_freqs' = DictSet(doc_max_freqs, current_file, MaxFreq(word_data, url_counts))
         /\ temp_index' = AddUrls(AddWords(temp_index, word_data.keys, word_data, current_file),
                                  url_counts.keys, url_counts, current_file)
  /\ pc' = "expand"
  /\ UNCHANGED << archive, unreadable, crawl_vars, built_vars, session_vars >>

\* bfs_crawl lines 74-80: the links of the page are enqueued.
CrawlExpand ==
  /\ pc = "expand"
  /\ LET links == extract_links_from_html(archive[current_file], current_file)
         qv == EnqueueLinks([queue |-> queue, visited |-> visited], links, all_files)
     IN  /\ queue' = qv.queue
         /\ visited' = qv.visited
  /\ pc' = "loop"
  /\ UNCHANGED << archive, unreadable, start_file, current_file, yielded, index_vars,
                  built_vars, session_vars >>

\* build_reverse_index lines 43-79: the crawl is over; pass 2.
ComputeTfIdf ==
  /\ pc = "loop"
  /\ queue = << >>
  /\ LET out == Pass2(temp_index.keys, temp_index, doc_max_freqs, Len(doc_max_freqs.keys),
                      [reverse_index |-> EmptyDict, document_vector_lengths |-> EmptyDict])
     IN  /\ reverse_index' = out.reverse_index
         /\ document_map' = DocumentMap(out.document_vector_lengths)
  /\ pc' = "built"
  /\ UNCHANGED << archive, unreadable, crawl_vars, index_vars, session_vars >>

Next ==
  \/ CrawlStart
  \/ CrawlVisit
  \/ IndexDocument
  \/ CrawlExpand
  \/ ComputeTfIdf

Spec == Init /\ [][Next]_vars

\* ------------------------------------------------------------------------
\* The search session: SearchGUI.search_documents
\* ------------------------------------------------------------------------

DQ == << "\"" >>

SQ == << "'" >>

\* The words of the queries: three that pages hold, one that none holds
\* outside a script element.
QueryWords == { << "a" >>, << "b" >>, << "c" >>, << "x" >> }

Separators == { SEP_OR, SEP_BUT, SEP_AND, << " " >> }

\* The queries without quotes: one, two or three words.
PlainQueries ==
  QueryWords
  \cup { t1 \o s \o t2 : t1 \in { << "a" >>, << "x" >> }, s \in Separators,
                         t2 \in { << "a" >>, << "b" >> } }
  \cup { << "a" >> \o s1 \o << "b" >> \o s2 \o << "c" >> : s1 \in Separators, s2 \in Separators }

\* Upper case, padding, a dangling separator, a lone quote, mixed quotes, a
\* quoted phrase followed by a separator, blank queries, and a word twice.
OddQueries ==
  { << "a", " ", "a", " ", "b" >>, << "A", " ", "O", "R", " ", "b" >>, << " ", "a", " ", "a", "n", "d", " ", "b", " " >>, << "a", " ", "o", "r" >>, DQ,
    DQ \o << "a", " ", "b" >> \o SQ, DQ \o << "a", " ", "b" >> \o DQ \o << " ", "o", "r", " ", "c" >>,
    DQ \o << " ", "a", " " >> \o DQ, << >>, << " " >> }

Queries ==
  PlainQueries \cup { DQ \o q \o DQ : q \in PlainQueries } \cup { SQ \o q \o SQ : q \in PlainQueries }
  \cup OddQueries

\* The texts the pages of a search session are drawn from.
TextPool == { TEXT_SECRET, TEXT_A_SECRET, TEXT_B2 }

\* A fully linked site whose texts vary.
SearchArchives ==
  { (RHF_INDEX :> Page(<< HREF_A_REL, HREF_B_UP >>, TEXT_INDEX))
      @@ (PAGE_A :> ScriptPage(<< HREF_B_ABS >>, TEXT_A))
      @@ (PAGE_B :> SplitPage(<< HREF_SECRET_UP >>, TEXT_B1, t3))
      @@ (SECRET :> Page(<< >>, t4)) @@ (NOTES :> << >>) :
    t3 \in TextPool, t4 \in TextPool }

InitSearch ==
  /\ archive \in SearchArchives
  /\ unreadable = {}
  /\ InitRun

\* A lookup that inserts an empty entry for a query that is no term of the
\* index, as a dictionary with a default factory would.
search_documents_inserting(queries) ==
  /\ pc = "built"
  /\ \E text \in queries :
       \E set_orders \in SetOrders(reverse_index, Strip(text)) :
         LET term == Strip(text)
             found == enhanced_search(reverse_index, term, document_map, set_orders)
             saved == term # << >> /\ found.signal = "list" /\ found.results # << >>
             new_top == save_top_results(found.results, top_n_default)
         IN  /\ search_term' = term
             /\ search_result' = IF term = << >> THEN NoSearch ELSE found
             /\ top_results' = IF saved THEN new_top ELSE top_results
             /\ IF saved
                THEN reformulation' \in reformulate_query(term, new_top, reverse_index)
                ELSE reformulation' = NotReformulated
             /\ reverse_index' = IF term = << >> \/ DictHas(reverse_index, term) THEN reverse_index
                                 ELSE DictSet(reverse_index, term, [df |-> 0, docs |-> << >>])
  /\ searches' = searches + 1
  /\ UNCHANGED << archive, unreadable, pc, crawl_vars, index_vars, document_map, phrase_call >>

\* SearchGUI.search_documents for a query of the pool: the query is trimmed
\* and a blank one is refused (lines 159-162); enhanced_search runs with the
\* document map (line 170); None or an empty list ends the handler (lines
\* 171-178); a non-empty list replaces the result memory (line 219) and
\* reformulate_query runs on the new memory (line 222).  Lines 223-287 search
\* the reformulated query and write to the display only.
search_documents(queries) ==
  /\ pc = "built"
  /\ \E text \in queries :
       \E set_orders \in SetOrders(reverse_index, Strip(text)) :
         LET term == Strip(text)
             found == enhanced_search(reverse_index, term, document_map, set_orders)
             saved == term # << >> /\ found.signal = "list" /\ found.results # << >>
             new_top == save_top_results(found.results, top_n_default)
         IN  /\ search_term' = term
             /\ search_result' = IF term = << >> THEN NoSearch ELSE found
             /\ top_results' = IF saved THEN new_top ELSE top_results
             /\ IF saved
                THEN reformulation' \in reformulate_query(term, new_top, reverse_index)
                ELSE reformulation' = NotReformulated
  /\ searches' = searches + 1
  /\ UNCHANGED << archive, unreadable, pc, crawl_vars, index_vars, built_vars, phrase_call >>

\* The first search of a session, with any query of the pool.
SearchDocuments ==
  /\ searches = 0
  /\ search_documents(Queries)

SearchNext == Next \/ SearchDocuments

SpecSearch == InitSearch /\ [][SearchNext]_vars

\* ------------------------------------------------------------------------
\* Direct calls of phrase_search with a proximity
\* ------------------------------------------------------------------------

TEXT_GAP == << "a", " ", "b", " ", "b", " ", " ", "c" >>

TEXT_ABC == << "a", " ", "b", " ", "c" >>

TEXT_CBAB == << "c", " ", "b", " ", "a", " ", "b" >>

TEXT_AAB == << "a", " ", "a", " ", " ", " ", "b" >>

\* Texts in which a word occurs twice before the next one, the words follow
\* each other closely, in the other order, or not at all.
PhraseTexts == { TEXT_GAP, TEXT_ABC, TEXT_CBAB, TEXT_AAB, TEXT_DEEP }

\* Two pages, the first linking the second.
PhraseArchives ==
  { (RHF_INDEX :> Page(<< HREF_A_REL >>, t1)) @@ (PAGE_A :> Page(<< >>, t2)) :
    t1 \in PhraseTexts, t2 \in PhraseTexts }

\* The word lists: two or three words a page may hold, repeated or not, and
\* one with a word that no page holds.
PhraseWordLists ==
  LET ws == { << "a" >>, << "b" >>, << "c" >> }
  IN  { << w1, w2 >> : w1 \in ws, w2 \in ws }
      \cup { << w1, w2, w3 >> : w1 \in ws, w2 \in ws, w3 \in ws }
      \cup { << << "a" >>, << "x" >> >> }

InitPhrase ==
  /\ archive \in PhraseArchives
  /\ unreadable = {}
  /\ InitRun

\* phrase_search(reverse_index, words, proximity) on the built index.
PhraseSearch ==
  /\ pc = "built"
  /\ phrase_call = NoPhraseCall
  /\ \E words \in PhraseWordLists : \E proximity \in 1..MaxProximity :
       phrase_call' = [words |-> words, proximity |-> proximity,
                       result |-> phrase_search(reverse_index, words, proximity, Str(proximity))]
  /\ UNCHANGED << archive, unreadable, pc, crawl_vars, index_vars, built_vars,
                  searches, search_term, search_result, top_results, reformulation >>

PhraseNext == Next \/ PhraseSearch

SpecPhrase == InitPhrase /\ [][PhraseNext]_vars

\* ------------------------------------------------------------------------
\* A session of several searches over one index
\* ------------------------------------------------------------------------

\* Six linked pages; five of them hold the word a, the sixth may.
SessionArchives ==
  { (RHF_INDEX :> Page(<< HREF_A_REL, HREF_B_UP >>, TEXT_INDEX))
      @@ (PAGE_A :> Page(<< >>, TEXT_A_SECRET))
      @@ (PAGE_B :> SplitPage(<< HREF_SECRET_UP, HREF_DEEP >>, TEXT_B1, TEXT_A_SECRET))
      @@ (SECRET :> Page(<< >>, TEXT_SECRET))
      @@ (DEEP_PAGE :> Page(<< HREF_SECRET_UP >>, TEXT_AAB))
      @@ (A_SECRET :> Page(<< >>, t)) :
    t \in { TEXT_ABC, TEXT_DEEP, TEXT_CBAB } }

\* Terms of many, few and no pages, free-text queries, one query of each
\* boolean form, a query that enhanced_search refuses, a blank query, and a
\* quoted phrase.
SessionQueries ==
  { << "a" >>, << "b" >>, << "c" >>, << "x" >>, << "a", " ", "b" >>, << "a", " ", "b", " ", "c" >>,
    << "x" >> \o SEP_OR \o << "b" >>, << "a" >> \o SEP_AND \o << "b" >>,
    << "c" >> \o SEP_BUT \o << "a" >>,
    << "a" >> \o SEP_BUT \o << "b" >> \o SEP_BUT \o << "c" >>, << " " >>,
    DQ \o << "a", " ", "b" >> \o DQ }

InitSession ==
  /\ archive \in SessionArchives
  /\ unreadable = {}
  /\ InitRun

\* One more search of the session.
SessionSearch ==
  /\ searches < MaxSearches
  /\ search_documents(SessionQueries)

SessionNext == Next \/ SessionSearch

SpecSession == InitSession /\ [][SessionNext]_vars

\* A run in which the read of at most one entry fails.
InitFault ==
  /\ archive \in { a \in SiteArchives : a[SECRET] = Page(<< >>, TEXT_SECRET) }
  /\ unreadable \in { {} } \cup { { f } : f \in { g \in DOMAIN archive : IsHtml(g) } }
  /\ InitRun

SpecFault == InitFault /\ [][Next]_vars

\* ------------------------------------------------------------------------
\* Properties of the crawl
\* ------------------------------------------------------------------------

NoDuplicates(seq) == \A i, j \in DOMAIN seq : i # j => seq[i] # seq[j]

\* The raw hrefs of a page, and the paths they normalize to.
Hrefs(f) == LinkExtractor(archive[f])

Links(f) == extract_links_from_html(archive[f], f)

\* The HTML entries a page links to.
Targets(f) == { q \in Range(Links(f)) : q \in all_files /\ IsHtml(q) }

TheStart == ChooseStart(configured_start, all_files)

\* The link graph: the pairs << page, target >>.
Edges == UNION { { << p, q >> : q \in Targets(p) } : p \in all_files }

\* The documents of a set and those one link away from them, within ok.
Extend(docs, edges, ok) == docs \cup { q \in ok : \E p \in docs : << p, q >> \in edges }

\* The balls of radius 0 to n around the start document, in order; acc holds
\* the balls of the smaller radii.
RECURSIVE BallSeq(_, _, _, _)
BallSeq(acc, n, edges, ok) ==
  IF n = 0 THEN acc
  ELSE BallSeq(Append(acc, Extend(acc[Len(acc)], edges, ok)), n - 1, edges, ok)

\* Balls(ok)[k + 1]: the documents at link distance at most k from the start
\* document, through the pages of ok.
Balls(ok) ==
  BallSeq(<< IF TheStart = None \/ TheStart \notin ok THEN {} ELSE { TheStart } >>,
          Cardinality(all_files), Edges, ok)

Ball(k, ok) == Balls(ok)[k + 1]

Reachable == Ball(Cardinality(all_files), all_files)

\* The link distance of a document from the start document.
DistIn(balls, q) == CHOOSE k \in 0..(Len(balls) - 1) :
                      /\ q \in balls[k + 1]
                      /\ \A j \in 0..(k - 1) : q \notin balls[j + 1]

Dist(q) == DistIn(Balls(all_files), q)

CrawlOver == pc \in { "built", "raised" }

\* The page whose expansion enqueued y: the first yielded page that links it.
DiscovererIn(edges, y) ==
  LET linking == { i \in DOMAIN yielded : << yielded[i], y >> \in edges }
  IN  yielded[CHOOSE i \in linking : \A j \in linking : i <= j]

Discoverer(y) == DiscovererIn(Edges, y)

FirstIndex(seq, x) ==
  CHOOSE i \in DOMAIN seq : seq[i] = x /\ \A j \in 1..(i - 1) : seq[j] # x

Count(seq, x) == Cardinality({ i \in DOMAIN seq : seq[i] = x })

\* The yielded documents are among those of a set, and are that set once the
\* crawl is over.
YieldedWithin(reachable) ==
  /\ Range(yielded) \subseteq reachable
  /\ CrawlOver => Range(yielded) = reachable

\* C1: bfs_crawl yields every HTML document reachable from the start document
\* exactly once and yields no other path; the frontier never holds a path
\* twice, nor a path already yielded.
C1_EachReachableYieldedOnce ==
  /\ NoDuplicates(yielded)
  /\ NoDuplicates(queue)
  /\ Range(queue) \cap Range(yielded) = {}
  /\ YieldedWithin(Reachable)

\* A finished crawl of three or more documents in which one target is linked
\* twice within a page and from a second page too.
C1_Witness ==
  /\ pc = "built"
  /\ Len(yielded) >= 3
  /\ \E p1, p2 \in Range(yielded) : \E q \in Range(yielded) :
       p1 # p2 /\ Count(Links(p1), q) = 2 /\ q \in Targets(p2)

\* The yield order against the balls and the edges of the link graph.
BreadthFirst(balls, edges) ==
  \A i, j \in DOMAIN yielded :
    i < j =>
      /\ DistIn(balls, yielded[i]) <= DistIn(balls, yielded[j])
      /\ (i > 1 /\ DiscovererIn(edges, yielded[i]) = DiscovererIn(edges, yielded[j])) =>
           FirstIndex(Links(DiscovererIn(edges, yielded[i])), yielded[i])
             < FirstIndex(Links(DiscovererIn(edges, yielded[i])), yielded[j])

\* C2: documents are yielded in breadth-first order: link distance from the
\* start never decreases along the yield order, and the documents one page
\* discovered are yielded in the order of their links in that page.
C2_BreadthFirstOrder == BreadthFirst(Balls(all_files), Edges)

\* A finished crawl with documents at distance 1 and 2, in which the start
\* page links b.htm before rhf/a.html and b.htm is yielded first.
C2_Witness ==
  /\ pc = "built"
  /\ Len(yielded) = 4
  /\ yielded[2] = PAGE_B
  /\ yielded[3] = PAGE_A
  /\ Discoverer(PAGE_A) = RHF_INDEX
  /\ Discoverer(PAGE_B) = RHF_INDEX
  /\ Dist(yielded[4]) = 2

NoStartFile ==
  configured_start \notin all_files /\ \A i \in DOMAIN potential_starts : potential_starts[i] \notin all_files

\* C3: with no start file in the archive the crawl ends normally with no
\* document yielded and build_reverse_index returns an empty index and an
\* empty document map.
C3_NoStartGivesEmptyIndex ==
  NoStartFile =>
    /\ pc # "raised"
    /\ yielded = << >>
    /\ pc = "built" => (reverse_index.keys = << >> /\ document_map.keys = << >>)

\* The link, cleaned, is resolved by lines 14-22 to a path that begins with
\* '..'.
EscapesRoot(f, h) ==
  LET clean == CleanLink(h)
  IN  /\ clean # << >>
      /\ ~\E scheme \in ExternalSchemes : StartsWith(clean, scheme)
      /\ StartsWith(ResolveLink(f, clean), << ".", "." >>)

\* C4: a link of a crawled page whose resolved path begins with '..' gets no
\* target from normalize_path.
C4_EscapingLinkRejected ==
  \A f \in Range(yielded) : \A h \in Range(Hrefs(f)) :
    EscapesRoot(f, h) => normalize_path(f, h) = None

\* The deep page has been expanded and holds the link "../secret.html".
DeepPageExpanded ==
  /\ DEEP_PAGE \in Range(yielded)
  /\ ~(current_file = DEEP_PAGE /\ pc \in { "yielded", "expand" })
  /\ HREF_SECRET_UP \in Range(Hrefs(DEEP_PAGE))

\* C5 as claimed: "../secret.html" in "a/b/page.html" gets no target and
\* nothing is enqueued for it.
C5_DeepLinkRejected ==
  DeepPageExpanded =>
    /\ normalize_path(DEEP_PAGE, HREF_SECRET_UP) = None
    /\ A_SECRET \notin visited

\* C5 as amended: "../secret.html" in "a/b/page.html" is the path
\* "a/secret.html", which is enqueued when the archive holds it; the entry
\* "secret.html" of the root is not enqueued for this link.
C5_DeepLinkStaysInside ==
  DeepPageExpanded =>
    /\ normalize_path(DEEP_PAGE, HREF_SECRET_UP) = A_SECRET
    /\ A_SECRET \in all_files => A_SECRET \in visited
    /\ HREF_SECRET_DOT \notin Range(Hrefs(INDEX)) => SECRET \notin visited

\* The deep page expanded, in an archive that holds "a/secret.html" and in
\* which nothing else links "secret.html".
C5_Witness ==
  /\ DeepPageExpanded
  /\ A_SECRET \in visited
  /\ SECRET \in all_files
  /\ SECRET \notin visited

\* The documents reachable through pages whose read succeeds.
ReachableReadable == Ball(Cardinality(all_files), all_files \ unreadable)

\* C6: an entry whose read fails is skipped and every other reachable
\* document is still yielded; the run is not aborted.
C6_UnreadableEntrySkipped ==
  (CrawlOver /\ ~NoStartFile) =>
    /\ pc = "built"
    /\ Range(yielded) = ReachableReadable

\* ------------------------------------------------------------------------
\* Properties of the index
\* ------------------------------------------------------------------------

Postings(t) == reverse_index.val[t].docs

\* C7: in the index that is returned, df of a term is the number of its
\* postings, no two postings of a term have the same doc_id, and the postings
\* are in ascending doc_id order.
C7_PostingsCountedUniqueSorted ==
  pc = "built" =>
    \A t \in Range(reverse_index.keys) :
      /\ reverse_index.val[t].df = Len(Postings(t))
      /\ \A i, j \in DOMAIN Postings(t) :
           i < j => StrLess(Postings(t)[i].doc_id, Postings(t)[j].doc_id)

\* An index with a term whose documents were crawled in descending doc_id
\* order.
C7_Witness ==
  /\ pc = "built"
  /\ \E t \in Range(reverse_index.keys) :
       /\ Len(Postings(t)) >= 2
       /\ \E i, j \in DOMAIN yielded :
            /\ i < j
            /\ StrLess(yielded[j], yielded[i])
            /\ { yielded[i], yielded[j] } \subseteq { Postings(t)[k].doc_id : k \in DOMAIN Postings(t) }

\* The sum of tf_idf squared over the postings of document d, term by term.
RECURSIVE SumSquares(_, _)
SumSquares(terms, d) ==
  IF terms = << >> THEN 0
  ELSE LET docs == Postings(terms[1])
           mine == { i \in DOMAIN docs : docs[i].doc_id = d }
           here == IF mine = {} THEN 0
                   ELSE LET i == CHOOSE i \in mine : TRUE
                        IN  docs[i].tf_idf * docs[i].tf_idf
       IN  here + SumSquares(Tail(terms), d)

\* C8: the vector length of a document, squared, is the sum of tf_idf squared
\* over the terms that have a posting for it (vector_length is the square
\* root rounded down to a thousandth).
C8_VectorLengthIsNormOfPostings ==
  pc = "built" =>
    \A d \in DOMAIN document_map.val :
      LET total == SumSquares(reverse_index.keys, d)
          length == document_map.val[d].vector_length
      IN  /\ length >= 0
          /\ length * length <= total
          /\ total < (length + 1) * (length + 1)

\* A document with a word posting and a url posting and a positive length.
C8_Witness ==
  /\ pc = "built"
  /\ \E d \in DOMAIN document_map.val :
       /\ document_map.val[d].vector_length > 0
       /\ \E t, u \in Range(reverse_index.keys) :
            /\ \E i \in DOMAIN Postings(t) :
                 Postings(t)[i].doc_id = d /\ Postings(t)[i].positions # << >>
                   /\ Postings(t)[i].tf_idf > 0
            /\ \E i \in DOMAIN Postings(u) :
                 Postings(u)[i].doc_id = d /\ Postings(u)[i].positions = << >>
                   /\ Postings(u)[i].tf_idf > 0

\* tf * idf from the final counts: N crawled documents and df postings.
FinalTfIdf(term_freq, max_freq, N, df) ==
  IF max_freq > 0 THEN (term_freq * (Log2Table[N][df + 1] + 1000)) \div max_freq ELSE 0

\* C21: no tf_idf and no vector length exists before the crawler has yielded
\* its last document, and every tf_idf of the returned index is computed from
\* the final number of crawled documents and the final number of postings of
\* the term, in whatever order the documents were crawled.
C21_TfIdfFromFinalCounts ==
  /\ pc # "built" => reverse_index = EmptyDict /\ document_map = EmptyDict
  /\ pc = "built" =>
       /\ queue = << >>
       /\ files_crawled = Len(yielded)
       /\ \A t \in Range(reverse_index.keys) : \A i \in DOMAIN Postings(t) :
            Postings(t)[i].tf_idf =
              FinalTfIdf(Postings(t)[i].term_freq, doc_max_freqs.val[Postings(t)[i].doc_id],
                         Len(yielded), Len(Postings(t)))

\* An index of three documents or more with a term that the first and the
\* last crawled document hold, two documents having been crawled in
\* descending doc_id order.
C21_Witness ==
  /\ pc = "built"
  /\ Len(yielded) >= 3
  /\ \E t \in Range(reverse_index.keys) :
       /\ { yielded[1], yielded[Len(yielded)] }
            \subseteq { Postings(t)[k].doc_id : k \in DOMAIN Postings(t) }
       /\ \E k \in DOMAIN Postings(t) : Postings(t)[k].tf_idf > 0
  /\ \E i, j \in DOMAIN yielded : i < j /\ StrLess(yielded[j], yielded[i])

\* The idf vector_space_search gives a term: the weight of the term in the
\* query that holds it once.
QueryIdf(t) ==
  QueryVector(reverse_index, << t >>, DictSet(EmptyDict, t, 1), Len(document_map.keys),
              EmptyDict).val[t]

\* The idf of the indexing run: log2(N / (df + 1)) + 1 over the crawled
\* documents.
IndexIdf(t) == Log2Table[files_crawled][reverse_index.val[t].df + 1] + 1000

\* C22: the idf that vector_space_search gives a query term is the idf the
\* indexer used for the term: the document map holds as many documents as
\* were crawled, also when a crawled document has no word and no link.
C22_QueryIdfEqualsIndexIdf ==
  pc = "built" =>
    /\ Len(document_map.keys) = files_crawled
    /\ \A t \in Range(reverse_index.keys) : QueryIdf(t) = IndexIdf(t)

\* C9: a term of the index that is an href of the posting's document is the
\* path normalize_path gives for an href of that document.
C9_UrlTermsAreNormalized ==
  pc = "built" =>
    \A t \in Range(reverse_index.keys) : \A i \in DOMAIN Postings(t) :
      LET d == Postings(t)[i].doc_id
      IN  t \in Range(Hrefs(d)) => \E h \in Range(Hrefs(d)) : normalize_path(d, h) = t

\* The words with their positions that the document holds: the token list of
\* the document taken alone.
WordsIn(d) == tokenize_html(archive[d], NewParser).words_with_positions

\* C26: a posting whose term occurs as a word in its document counts the
\* occurrences of the word: term_freq is the number of occurrences and the
\* positions list holds one entry for each, also when the document has an
\* anchor whose href is the same string as the word.
C26_WordPostingCountsOccurrences ==
  pc = "built" =>
    \A t \in Range(reverse_index.keys) : \A i \in DOMAIN Postings(t) :
      LET words == WordsIn(Postings(t)[i].doc_id)
          occurrences == { k \in DOMAIN words : words[k][1] = t }
      IN  occurrences # {} =>
            /\ Postings(t)[i].term_freq = Cardinality(occurrences)
            /\ Len(Postings(t)[i].positions) = Postings(t)[i].term_freq

\* C23: the reused parser gives for every document of the crawl the words
\* with their positions and the hrefs that a fresh parser gives for the
\* document alone: nothing that an earlier document left in the parser, such
\* as the input after an unclosed script element, reaches a later document.
C23_ReusedParserTokenizesAsFresh ==
  pc = "expand" =>
    LET fresh == tokenize_html(archive[current_file], NewParser)
        text == SubBareUrls(SubDataUris(get_text(parser)))
    IN  /\ WordMatches(Lower(text), 1) = fresh.words_with_positions
        /\ parser.urls = fresh.urls

\* ------------------------------------------------------------------------
\* Properties of the query engine
\* ------------------------------------------------------------------------

\* The query form a result comes from: each message is made by one form.
FormOf(result) ==
  LET kind == result.message.kind
  IN  CASE kind \in { "phrase_words_not_in_index", "phrase_no_common_document",
                      "phrase_not_within", "phrase_found" } -> "phrase"
        [] kind \in { "or_invalid", "or_found" } -> "or"
        [] kind \in { "but_invalid", "but_first_term_not_in_index", "but_none", "but_found" } -> "but"
        [] kind \in { "and_invalid", "and_terms_not_in_index", "and_none", "and_found" } -> "and"
        [] kind \in { "vector_no_terms_in_index", "vector_found" } -> "free_text"
        [] kind \in { "single_none", "single_found" } -> "single"
        [] OTHER -> "none"

FormPriority == << "phrase", "or", "but", "and", "free_text", "single" >>

\* The forms whose mark the query holds: quotes around two words or more, a
\* separator, more than one word; any query can be a single term.
FormsPresent(raw_query) ==
  LET query == Lower(Strip(raw_query))
      inner == Strip(SubSeq(query, 2, Len(query) - 1))
      body == IF IsQuoted(query) THEN inner ELSE query
  IN  { f \in Range(FormPriority) :
          \/ f = "phrase" /\ IsQuoted(query) /\ Len(SplitWs(inner)) >= 2
          \/ f = "or" /\ Contains(body, SEP_OR)
          \/ f = "but" /\ Contains(body, SEP_BUT)
          \/ f = "and" /\ Contains(body, SEP_AND)
          \/ f = "free_text" /\ Len(SplitWs(body)) > 1
          \/ f = "single" }

\* The form of highest priority among those present.
ExpectedForm(raw_query) ==
  FormPriority[CHOOSE i \in DOMAIN FormPriority :
                 /\ FormPriority[i] \in FormsPresent(raw_query)
                 /\ \A j \in 1..(i - 1) : FormPriority[j] \notin FormsPresent(raw_query)]

QUERY_AND_OR == << "a", " ", "a", "n", "d", " ", "b", " ", "o", "r", " ", "c" >>

Searched == searches > 0 /\ search_term # << >>

\* C10: a query is handled by the form of highest priority it shows, in the
\* order phrase > or > but > and > free text > single term; 'a and b or c'
\* is an OR query of the terms 'a and b' and 'c'; a quoted single word is
\* handled as the word without quotes.
C10_HighestPriorityFormHandles ==
  Searched =>
    /\ FormOf(search_result) = ExpectedForm(search_term)
    /\ search_term = QUERY_AND_OR =>
         /\ search_result.message.kind = "or_found"
         /\ search_result.message.terms = << << "a", " ", "a", "n", "d", " ", "b" >>, << "c" >> >>
    /\ \A w \in QueryWords :
         search_term \in { DQ \o w \o DQ, SQ \o w \o SQ } =>
           search_result = enhanced_search(reverse_index, w, document_map, << >>)

\* 'a and b or c' was searched and came back as the documents that hold 'c'.
C10_Witness ==
  /\ Searched
  /\ search_term = QUERY_AND_OR
  /\ search_result.signal = "list"
  /\ search_result.results # << >>
  /\ \A i \in DOMAIN search_result.results :
       search_result.results[i].matched_term = << "c" >>

\* The doc ids of a result list, as a set.
DocIds(result) == { result.results[i].doc_id : i \in DOMAIN result.results }

\* The documents a single-term search of the word returns.
SingleSet(w) == DocIds(enhanced_search(reverse_index, w, document_map, << >>))

QUERY_A_AND_B == << "a" >> \o SEP_AND \o << "b" >>

DocSetOf(query) ==
  DocIds(enhanced_search(reverse_index, query, document_map,
                         CHOOSE o \in SetOrders(reverse_index, query) : TRUE))

\* C12 as claimed: AND, OR and BUT each return the same set of doc ids when
\* the two terms are listed in the other order.
C12_BooleanFormsOrderIndependent ==
  Searched =>
    \A t1, t2 \in QueryWords : \A sep \in { SEP_AND, SEP_OR, SEP_BUT } :
      search_term = t1 \o sep \o t2 => DocIds(search_result) = DocSetOf(t2 \o sep \o t1)

\* C12 as amended: AND and OR return the same set of doc ids in any order of
\* their terms; 'a but b' and 'b but a' return disjoint sets, the documents of
\* a without those of b and the documents of b without those of a.
C12_AndOrOrderIndependentButNot ==
  Searched =>
    /\ \A t1, t2 \in QueryWords : \A sep \in { SEP_AND, SEP_OR } :
         search_term = t1 \o sep \o t2 => DocIds(search_result) = DocSetOf(t2 \o sep \o t1)
    /\ \A t1, t2, t3 \in QueryWords : \A sep \in { SEP_AND, SEP_OR } :
         search_term = t1 \o sep \o t2 \o sep \o t3 =>
           /\ DocIds(search_result) = DocSetOf(t3 \o sep \o t2 \o sep \o t1)
           /\ DocIds(search_result) = DocSetOf(t2 \o sep \o t1 \o sep \o t3)
    /\ \A t1, t2 \in QueryWords :
         search_term = t1 \o SEP_BUT \o t2 =>
           /\ DocIds(search_result) \cap DocSetOf(t2 \o SEP_BUT \o t1) = {}
           /\ DocIds(search_result) = SingleSet(t1) \ SingleSet(t2)
           /\ DocSetOf(t2 \o SEP_BUT \o t1) = SingleSet(t2) \ SingleSet(t1)

QUERY_A_BUT_B == << "a" >> \o SEP_BUT \o << "b" >>

\* 'a but b' was searched and returned documents, and 'b but a' returns
\* other documents on the same index.
C12_Witness ==
  /\ Searched
  /\ search_term = QUERY_A_BUT_B
  /\ DocIds(search_result) # {}
  /\ DocSetOf(<< "b" >> \o SEP_BUT \o << "a" >>) # {}

\* The distinguished signal of an error: None in place of a list.
IsNoResultSet(result) == result.signal = "none"

\* C13: enhanced_search returns the 'no result set' signal with a message for
\* a BUT query whose operand count is not two, for an AND query with a term
\* that the index lacks and for a BUT query whose first term the index lacks;
\* a valid query without matches returns an empty list.
C13_ErrorsReturnNoResultSet ==
  Searched =>
    /\ search_result.message.kind # ""
    /\ \A t1, t2, t3 \in QueryWords :
         search_term = t1 \o SEP_BUT \o t2 \o SEP_BUT \o t3 => IsNoResultSet(search_result)
    /\ \A t1, t2 \in QueryWords :
         /\ (/\ search_term = t1 \o SEP_AND \o t2
             /\ (~DictHas(reverse_index, t1) \/ ~DictHas(reverse_index, t2)))
              => IsNoResultSet(search_result)
         /\ (search_term = t1 \o SEP_BUT \o t2 /\ ~DictHas(reverse_index, t1))
              => IsNoResultSet(search_result)
         /\ (/\ search_term \in { t1 \o SEP_AND \o t2, t1 \o SEP_BUT \o t2 }
             /\ DictHas(reverse_index, t1) /\ DictHas(reverse_index, t2))
              => search_result.signal = "list"

\* The terms of an OR query, in query order.
OrTermsOf(raw_query) == StripEach(Split(Unquote(raw_query).query, SEP_OR))

\* The postings of a term for a document.
PostingsOf(t, d) ==
  IF DictHas(reverse_index, t)
  THEN { p \in Range(reverse_index.val[t].docs) : p.doc_id = d }
  ELSE {}

\* The first term in query order with a posting for the document.
FirstTermWith(terms, d) ==
  terms[CHOOSE i \in DOMAIN terms :
          /\ PostingsOf(terms[i], d) # {}
          /\ \A j \in 1..(i - 1) : PostingsOf(terms[j], d) = {}]

\* C25: the result list of an OR query holds every document at most once, and
\* the record of a document carries the matched_term, term_freq, tf_idf and
\* positions of the first term in query order that has a posting for it,
\* whatever the later terms hold.
C25_OrKeepsFirstTermRecord ==
  (Searched /\ FormOf(search_result) = "or" /\ search_result.signal = "list") =>
    LET terms == OrTermsOf(search_term)
        rs == search_result.results
    IN  /\ \A i, j \in DOMAIN rs : i # j => rs[i].doc_id # rs[j].doc_id
        /\ \A i \in DOMAIN rs :
             /\ \E k \in DOMAIN terms : PostingsOf(terms[k], rs[i].doc_id) # {}
             /\ LET first == FirstTermWith(terms, rs[i].doc_id)
                IN  /\ rs[i].matched_term = first
                    /\ \E p \in PostingsOf(first, rs[i].doc_id) :
                         /\ rs[i].term_freq = p.term_freq
                         /\ rs[i].tf_idf = p.tf_idf
                         /\ rs[i].positions = p.positions

\* An OR query with a document under two of its terms, the second term's
\* posting differing from the first's in frequency, weight and positions.
C25_Witness ==
  /\ Searched
  /\ FormOf(search_result) = "or"
  /\ \E i \in DOMAIN search_result.results :
       LET terms == OrTermsOf(search_term)
           d == search_result.results[i].doc_id
       IN  /\ Len(terms) >= 2
           /\ terms[1] # terms[2]
           /\ PostingsOf(terms[1], d) # {}
           /\ \E p \in PostingsOf(terms[2], d) :
                /\ p.term_freq # search_result.results[i].term_freq
                /\ p.tf_idf # search_result.results[i].tf_idf
                /\ p.positions # search_result.results[i].positions

\* ------------------------------------------------------------------------
\* Properties of phrase_search
\* ------------------------------------------------------------------------

PhraseCalled == phrase_call # NoPhraseCall

\* The positions of a word in a document, from the postings of the index.
PositionsIn(w, d) ==
  LET docs == reverse_index.val[w].docs
  IN  UNION { Range(docs[i].positions) : i \in { j \in DOMAIN docs : docs[j].doc_id = d } }

\* Positions of the words from the i-th on follow prev, each after the one
\* before and at most P from it.
RECURSIVE ChainFrom(_, _, _, _, _)
ChainFrom(words, i, prev, d, P) ==
  \/ i > Len(words)
  \/ \E q \in PositionsIn(words[i], d) :
       q > prev /\ q - prev <= P /\ ChainFrom(words, i + 1, q, d, P)

ChainExists(words, d, P) ==
  \E p1 \in PositionsIn(words[1], d) : ChainFrom(words, 2, p1, d, P)

\* C14: for pairwise distinct words that the index holds, phrase_search
\* returns a document iff it has positions p1 < ... < pk of the words, in
\* order, with no gap above the proximity.
C14_PhraseMatchesIffChainExists ==
  (/\ PhraseCalled
   /\ NoDuplicates(phrase_call.words)
   /\ \A i \in DOMAIN phrase_call.words : DictHas(reverse_index, phrase_call.words[i]))
    => \A d \in Range(document_map.keys) :
         d \in DocIds(phrase_call.result)
           <=> ChainExists(phrase_call.words, d, phrase_call.proximity)

\* The documents phrase_search returns for the words of the call at another
\* proximity.
PhraseDocsAt(P) == DocIds(phrase_search(reverse_index, phrase_call.words, P, Str(P)))

\* C15: every document phrase_search returns at a proximity is returned at
\* every larger proximity.
C15_PhraseMonotonicInProximity ==
  PhraseCalled =>
    \A P \in { p \in 1..(MaxProximity + 2) : p > phrase_call.proximity } \cup { proximity_default } :
      DocIds(phrase_call.result) \subseteq PhraseDocsAt(P)

\* A call that returned a document, on an index where a larger proximity
\* returns one more document.
C15_Witness ==
  /\ PhraseCalled
  /\ DocIds(phrase_call.result) # {}
  /\ \E P \in (phrase_call.proximity + 1)..MaxProximity :
       PhraseDocsAt(P) \ DocIds(phrase_call.result) # {}

\* A phrase in which a word occurs more than once.
RepeatsWord(words) == \E i, j \in DOMAIN words : i # j /\ words[i] = words[j]

\* C24: for a phrase with a repeated word, phrase_search returns a document
\* only if every word of the phrase, repeats included, has a position after
\* the position matched for the word before it and at most the proximity
\* from it; a document that holds a once does not match the phrase a a.
C24_RepeatedWordsCheckedInSequence ==
  (PhraseCalled /\ RepeatsWord(phrase_call.words)) =>
    \A d \in DocIds(phrase_call.result) :
      ChainExists(phrase_call.words, d, phrase_call.proximity)

\* ------------------------------------------------------------------------
\* Properties of vector_space_search
\* ------------------------------------------------------------------------

\* The term list k times over: every multiplicity is multiplied by k.
RECURSIVE Repeat(_, _)
Repeat(terms, k) == IF k = 0 THEN << >> ELSE terms \o Repeat(terms, k - 1)

\* The doc ids of a result list in ranked order, and their similarities.
DocSeq(result) == [i \in DOMAIN result.results |-> result.results[i].doc_id]

SimilaritySeq(result) == [i \in DOMAIN result.results |-> result.results[i].similarity]

\* C16: a free-text query whose term multiplicities are all multiplied by the
\* same positive integer returns the same documents in the same ranked order
\* (with the same similarities).
C16_RankingUnchangedByScaling ==
  (Searched /\ ExpectedForm(search_term) = "free_text") =>
    \A k \in 1..MaxScale :
      LET terms == SplitWs(Unquote(search_term).query)
          scaled == vector_space_search(reverse_index, document_map, Repeat(terms, k))
      IN  /\ DocSeq(scaled) = DocSeq(search_result)
          /\ SimilaritySeq(scaled) = SimilaritySeq(search_result)

QUERY_A_A_B == << "a", " ", "a", " ", "b" >>

\* 'a a b' was searched and ranked two documents or more, not all with the
\* same similarity.
C16_Witness ==
  /\ Searched
  /\ search_term = QUERY_A_A_B
  /\ Len(search_result.results) >= 2
  /\ search_result.results[1].similarity > search_result.results[Len(search_result.results)].similarity

\* ------------------------------------------------------------------------
\* Properties of the result memory
\* ------------------------------------------------------------------------

\* The score the results are ranked by: similarity, else tf_idf.
ClaimedScore(r) ==
  IF "similarity" \in DOMAIN r THEN r.similarity
  ELSE IF "tf_idf" \in DOMAIN r THEN r.tf_idf ELSE 0

ScoreOfDoc(results, d) ==
  ClaimedScore(results[CHOOSE i \in DOMAIN results : results[i].doc_id = d])

\* top holds the best doc_ids of results: at most 5, each of them a result,
\* none twice, by descending score, and no result left out scores higher.
HoldsTopOf(top, results) ==
  /\ Len(top) = (IF Len(results) < 5 THEN Len(results) ELSE 5)
  /\ \A i \in DOMAIN top : \E j \in DOMAIN results : results[j].doc_id = top[i]
  /\ NoDuplicates(top)
  /\ \A i, j \in DOMAIN top : i < j => ScoreOfDoc(results, top[i]) >= ScoreOfDoc(results, top[j])
  /\ \A j \in DOMAIN results :
       results[j].doc_id \notin Range(top) =>
         \A i \in DOMAIN top : ScoreOfDoc(results, top[i]) >= ClaimedScore(results[j])

\* C17: every search that returns a non-empty list replaces the result memory
\* by the doc_ids of its results, by descending score, at most 5 and none from
\* an earlier search; a search that returns an empty list or the error signal,
\* and a blank query, leave the memory as it was.
C17_MemoryHoldsLastNonEmptySearch ==
  [][ searches' = searches + 1 =>
        IF search_result'.signal = "list" /\ search_result'.results # << >>
        THEN HoldsTopOf(top_results', search_result'.results)
        ELSE top_results' = top_results ]_vars

\* After a search of six results, a second search without results: the
\* memory still holds five doc_ids.
C17_Witness ==
  /\ searches = 2
  /\ Len(document_map.keys) = 6
  /\ search_result.results = << >>
  /\ Len(top_results) = 5
  /\ top_results[1] # top_results[5]

\* ------------------------------------------------------------------------
\* Properties of the reformulation
\* ------------------------------------------------------------------------

Reformulated == reformulation.outcome # "not called"

\* The terms with a posting in a remembered document.
RememberedKeywords ==
  { k \in Range(reverse_index.keys) :
      \E i \in DOMAIN reverse_index.val[k].docs :
        reverse_index.val[k].docs[i].doc_id \in Range(top_results) }

\* The whitespace-separated terms of the original query.
OriginalTerms == Range(SplitWs(search_term))

\* C18: reformulate_query returns None, and does not raise, when the result
\* memory is empty, when no index term has a posting in a remembered
\* document, and when every one of the top-N correlated keywords is a term of
\* the original query.
C18_NoOutputReturnsNone ==
  Reformulated /\ reformulation.outcome # "query" => reformulation.outcome = "none"

\* What the returned query appends to the original query.
Appended ==
  LET q == reformulation.query
      n == Len(search_term)
  IN  IF Len(q) > n THEN Split(SubSeq(q, n + 2, Len(q)), << " " >>) ELSE << >>

\* C19: a query returned by reformulate_query is the original query, a space,
\* and 1 to 3 keywords joined by spaces; each keyword has a posting in a
\* remembered document, none equals a term of the original query whatever
\* the case, and none is appended twice.
C19_ReformulatedQueryAppendsNewKeywords ==
  reformulation.outcome = "query" =>
    /\ Len(reformulation.query) > Len(search_term) + 1
    /\ SubSeq(reformulation.query, 1, Len(search_term) + 1) = search_term \o << " " >>
    /\ Len(Appended) \in 1..3
    /\ \A i \in DOMAIN Appended :
         /\ Appended[i] \in RememberedKeywords
         /\ \A t \in OriginalTerms : Lower(Appended[i]) # Lower(t)
    /\ NoDuplicates(Appended)

\* A query with fewer than three keywords appended although three were
\* remembered: one of the best three was a term of the query.
C19_Witness ==
  /\ reformulation.outcome = "query"
  /\ Len(Appended) \in 1..2
  /\ Cardinality(RememberedKeywords) >= 3
  /\ \E t \in OriginalTerms : t \in RememberedKeywords

\* ------------------------------------------------------------------------
\* The index under queries
\* ------------------------------------------------------------------------

\* What build_reverse_index returned.
IndexAsBuilt ==
  LET out == Pass2(temp_index.keys, temp_index, doc_max_freqs, Len(doc_max_freqs.keys),
                   [reverse_index |-> EmptyDict, document_vector_lengths |-> EmptyDict])
  IN  [reverse_index |-> out.reverse_index,
       document_map |-> DocumentMap(out.document_vector_lengths)]

\* What the query returns on the index as built, whatever was searched
\* before.
ResultsAlone(query) ==
  { enhanced_search(IndexAsBuilt.reverse_index, query, IndexAsBuilt.document_map, set_orders) :
      set_orders \in SetOrders(IndexAsBuilt.reverse_index, query) }

====
